---------------------------- MODULE Spec2Model ----------------------------
(***************************************************************************)
(* Prescription exchange core: the EHR sync scheduler                      *)
(* (src/src/integrations/ehr_integration.py), the HL7 inbound message      *)
(* queue and validator (src/src/integrations/hl7_integration.py), the EHR  *)
(* authenticator, connectors and patient context of ehr_integration.py and *)
(* the submission gateway                                                  *)
(* (src/src/gateway/prescription_submission_api.py).                       *)
(*                                                                         *)
(* Spec          scheduler, every call running to completion               *)
(* SpecConc      scheduler, two process_sync_jobs calls interleaved        *)
(* SpecQueue     message queue, every call running to completion           *)
(* SpecQueueConc message queue, enqueue/dequeue calls interleaved          *)
(* SpecGateway   submission gateway                                        *)
(* SpecToken     EHR authenticator and connector requests                  *)
(* SpecTokenConc EHR authenticator, get_access_token calls interleaved     *)
(* SpecValidator HL7 message validator                                     *)
(* SpecContext   EHR service: connector registration and patient context   *)
(* SpecDriven    scheduler with process_sync_jobs called again and again   *)
(* SpecDispense  dispensing API, record_dispensation calls interleaved     *)
(* SpecApi       REST layer: API key check, submission endpoint            *)
(* SpecCodec     FHIR and HL7 v2 codecs: round trips, bundle decoding      *)
(***************************************************************************)
EXTENDS Integers, Sequences, FiniteSets, TLC

VARIABLES
    connectors,   \* EHRIntegrationService.connectors: the registered EHR systems
    sync_jobs,    \* EHRSyncScheduler.sync_jobs: the list of job dicts
    hist,         \* per job: calls to sync_prescription, last outcome, passes seen
    clock,        \* datetime.utcnow() truncated to seconds
    ret,          \* what the last scheduler call returned
    wk,           \* per worker thread: position inside process_sync_jobs
    queue,        \* HL7MessageQueue.queue
    processed,    \* HL7MessageQueue.processed
    qclock,       \* datetime.utcnow() in microseconds
    enqueued,     \* number of enqueue calls made so far
    qret,         \* what the last queue call returned
    qt,           \* per queue thread: position inside enqueue / dequeue
    delivered,    \* messages handed out by dequeue, in order
    gw,           \* the gateway: its validation service, the calls made, what
                  \* was handed to storage, the last call's steps and response
    auth,         \* EHRAuthenticator: access_token, refresh_token, token_expires_at
    tnow,         \* datetime.utcnow() as the authenticator reads it, in seconds
    issued,       \* access tokens the token endpoint has issued so far
    sent,         \* EHR requests sent so far and the header of the last one
    aret,         \* what the last authenticator or connector call returned
    th,           \* per thread: position inside get_access_token
    hv,           \* the last validate_message call: its string and its result
    pctx,         \* the last get_patient_context call: its arguments and result
    disp,         \* the prescriptions and dispensations of the central database,
                  \* each thread's position inside record_dispensation, the
                  \* last response
    api,          \* the last HTTP request the REST layer handled and its response
    cdc           \* the last codec call: its argument, the bundle and the result

vars == <<connectors, sync_jobs, hist, clock, ret, wk,
          queue, processed, qclock, enqueued, qret, qt, delivered, gw,
          auth, tnow, issued, sent, aret, th, hv, pctx, disp, api, cdc>>

schedVars == <<connectors, sync_jobs, hist, clock, ret, wk>>
queueVars == <<queue, processed, qclock, enqueued, qret, qt, delivered>>
tokenVars == <<auth, tnow, issued, sent, aret, th>>
moreVars == <<disp, api, cdc>>

\* Python's None where a string is expected; a timestamp or a result that is
\* None is the empty tuple, one that is set a tuple holding it.
None == "None"

(***************************************************************************)
(* Bounds                                                                  *)
(***************************************************************************)
\* Jobs ever scheduled.
MaxJobs == 2
\* Largest retry_count passed to schedule_sync (3 is the default).
MaxRetry == 3
\* Seconds that pass on the scheduler's clock.
MaxTime == 1
\* process_sync_jobs calls per thread in SpecConc.
MaxRuns == 1
\* Messages ever enqueued.
MaxMsgs == 3
\* Largest priority passed to enqueue (0 is the default).
MaxPriority == 1
\* Microseconds that pass on the queue's clock.
MaxQTime == 1
\* submit_prescription calls made.
MaxSubmissions == 2
\* Largest expires_in of a token response, in seconds.
MaxExpiresIn == 2
\* Seconds that pass on the authenticator's clock.
MaxTokenTime == 2
\* Access tokens the token endpoint issues.
MaxTokens == 3
\* EHR requests sent.
MaxRequests == 2
\* Pieces between "\r" characters in an HL7 string.
MaxSegments == 3
\* Resources in the allergy list an EHR returns.
MaxEntries == 1
\* record_dispensation calls per thread.
MaxDispenseCalls == 2
\* Medications of a prescription handed to a codec.
MaxMeds == 2
\* Entries of a received FHIR bundle.
MaxBundle == 3

RxIds == {"rx1", "rx2"}
\* EHR system names, in the lower case register_connector and get_connector
\* bring them to.  Connectors are registered during set-up: epic has one,
\* cerner has none.
EhrSystems == {"epic", "cerner"}
RetryCounts == 0..MaxRetry
Workers == {"w1", "w2"}
Priorities == 0..MaxPriority
QThreads == {"t1", "t2"}

\* What one delivery attempt can come to once a connector is found: the EHR
\* accepts it, the request is refused for its credentials (HTTP 401), the
\* network call fails or times out, or the EHR refuses the order (HTTP 4xx).
ConnectorOutcomes == {"ok", "auth", "transport", "api"}

(***************************************************************************)
(* EHRIntegrationService                                                   *)
(***************************************************************************)
\* get_connector: the connector registered under the name, or ValueError.
get_connector(ehr_system) ==
    IF ehr_system \in connectors THEN "connector" ELSE "ValueError"

\* sync_prescription: get_connector runs outside the try block, so a lookup
\* miss leaves the method as an exception; a failure of create_prescription
\* is caught and returned as success = False.
sync_prescription(ehr_system, outcome) ==
    IF get_connector(ehr_system) = "ValueError"
    THEN [raised |-> TRUE, success |-> FALSE, error |-> "lookup"]
    ELSE IF outcome = "ok"
         THEN [raised |-> FALSE, success |-> TRUE, error |-> None]
         ELSE [raised |-> FALSE, success |-> FALSE, error |-> outcome]

\* How a delivery ended: "ok", or the kind of its failure.
Kind(r) == IF r.success THEN "ok" ELSE r.error

(***************************************************************************)
(* EHRSyncScheduler                                                        *)
(***************************************************************************)
\* job_id = f"sync-{prescription_id}-{utcnow:%Y%m%d%H%M%S}"
JobId(prescription_id, t) == <<"sync", prescription_id, t>>

NewJob(prescription_id, ehr_system, retry_count, t) ==
    [job_id          |-> JobId(prescription_id, t),
     prescription_id |-> prescription_id,
     ehr_system      |-> ehr_system,
     retry_count     |-> retry_count,
     attempts        |-> 0,
     status          |-> "pending",
     last_attempt_at |-> <<>>,
     result          |-> <<>>]

\* BeginAttempt counting the attempt twice.
BeginAttempt_Twice(job, t) ==
    [job EXCEPT !.attempts = @ + 2, !.last_attempt_at = <<t>>]

\* The part of one loop iteration before the call: lines 826-827.
BeginAttempt(job, t) ==
    [job EXCEPT !.attempts = @ + 1, !.last_attempt_at = <<t>>]

\* EndAttempt with the retry test off by one.
EndAttempt_OffByOne(job, r) ==
    IF r.success
    THEN [job EXCEPT !.status = "completed", !.result = <<"ok">>]
    ELSE IF job.attempts <= job.retry_count
         THEN [job EXCEPT !.status = "pending"]
         ELSE [job EXCEPT !.status = "failed", !.result = <<"error", r.error>>]

\* The part of one loop iteration after the call: lines 836-859.  r is what
\* sync_prescription returned or raised; both failures reach the handler.
EndAttempt(job, r) ==
    IF r.success
    THEN [job EXCEPT !.status = "completed", !.result = <<"ok">>]
    ELSE IF job.attempts < job.retry_count
         THEN [job EXCEPT !.status = "pending"]
         ELSE [job EXCEPT !.status = "failed", !.result = <<"error", r.error>>]

\* How one finished iteration is counted in the summary.
Tally(job) ==
    CASE job.status = "completed" -> "succeeded"
      [] job.status = "pending"   -> "retrying"
      [] OTHER                    -> "failed"

\* PendingIdx selecting every job, whatever its status.
PendingIdx_All(jobs) == DOMAIN jobs

\* PendingIdx selecting no job.
PendingIdx_None(jobs) == {k \in DOMAIN jobs : FALSE}

\* PendingIdx selecting every job that was not delivered.
PendingIdx_NotCompleted(jobs) ==
    {i \in DOMAIN jobs : jobs[i].status # "completed"}

PendingIdx(jobs) == {i \in DOMAIN jobs : jobs[i].status = "pending"}

\* The set's members in list order, as the comprehension of line 816 keeps them.
RECURSIVE InOrder(_, _)
InOrder(S, n) ==
    IF n = 0 THEN <<>>
    ELSE IF n \in S THEN Append(InOrder(S, n - 1), n) ELSE InOrder(S, n - 1)

EmptySummary == [processed |-> 0, succeeded |-> 0, failed |-> 0, retrying |-> 0]

\* Every job that has not been delivered has seen one more pass (counted up
\* to one pass beyond its retry_count).
SeenPass(jobs, h) ==
    [i \in DOMAIN h |->
        IF jobs[i].status # "completed" /\ h[i].passes <= jobs[i].retry_count
        THEN [h[i] EXCEPT !.passes = @ + 1] ELSE h[i]]

\* The loop of lines 825-861 over the snapshot `todo`, with env giving the
\* outcome of each job's delivery.  Yields the jobs, the bookkeeping and the
\* summary after the loop.
RECURSIVE ProcessLoop(_, _, _, _, _, _)
ProcessLoop(jobs, h, todo, env, t, sum) ==
    IF todo = <<>> THEN [jobs |-> jobs, hist |-> h, sum |-> sum]
    ELSE LET i    == Head(todo)
             r    == sync_prescription(jobs[i].ehr_system, env[i])
             done == EndAttempt(BeginAttempt(jobs[i], t), r)
             k    == Tally(done)
         IN ProcessLoop([jobs EXCEPT ![i] = done],
                        [h EXCEPT ![i].calls = @ + 1, ![i].last = Kind(r)],
                        Tail(todo), env, t,
                        [sum EXCEPT !.processed = @ + 1, ![k] = @ + 1])

\* get_job_status: the first job of the list carrying the id (found), or
\* None (not found).
FirstWithId(jobs, job_id) ==
    LET hits == {i \in DOMAIN jobs : jobs[i].job_id = job_id}
    IN IF hits = {} THEN 0 ELSE CHOOSE i \in hits : \A j \in hits : i <= j

get_job_status(jobs, job_id) ==
    LET i == FirstWithId(jobs, job_id)
    IN IF i = 0 THEN [found |-> FALSE]
       ELSE [found           |-> TRUE,
             job_id          |-> jobs[i].job_id,
             status          |-> jobs[i].status,
             attempts        |-> jobs[i].attempts,
             last_attempt_at |-> jobs[i].last_attempt_at,
             result          |-> jobs[i].result]

IdleWorker == [pc |-> "idle", todo |-> <<>>, att0 |-> <<>>, did |-> {}, runs |-> 0]

SchedInit ==
    /\ connectors = {"epic"}
    /\ sync_jobs = <<>>
    /\ hist = <<>>
    /\ clock = 0
    /\ ret = [op |-> "init", val |-> None]
    /\ wk = [w \in Workers |-> IdleWorker]

\* Time passes between calls.
Tick ==
    /\ clock < MaxTime
    /\ clock' = clock + 1
    /\ UNCHANGED <<connectors, sync_jobs, hist, ret, wk>>

schedule_sync(prescription_id, ehr_system, retry_count) ==
    /\ Len(sync_jobs) < MaxJobs
    /\ sync_jobs' = Append(sync_jobs,
                           NewJob(prescription_id, ehr_system, retry_count, clock))
    /\ hist' = Append(hist, [calls |-> 0, last |-> None, passes |-> 0])
    /\ ret' = [op |-> "schedule", val |-> JobId(prescription_id, clock)]
    /\ UNCHANGED <<connectors, clock, wk>>

process_sync_jobs(env) ==
    /\ LET out == ProcessLoop(sync_jobs, SeenPass(sync_jobs, hist),
                              InOrder(PendingIdx(sync_jobs), Len(sync_jobs)),
                              env, clock, EmptySummary)
       IN /\ sync_jobs' = out.jobs
          /\ hist' = out.hist
          /\ ret' = [op |-> "process", val |-> out.sum]
    /\ UNCHANGED <<connectors, clock, wk>>

\* The caller asks with the id that the schedule_sync call creating job n
\* returned (n = 0: with an id that no call returned).
get_job_status_call(n) ==
    /\ ret' = [op |-> "status", of |-> n,
               val |-> IF n = 0 THEN get_job_status(sync_jobs, JobId("rx0", clock))
                       ELSE get_job_status(sync_jobs, sync_jobs[n].job_id)]
    /\ UNCHANGED <<connectors, sync_jobs, hist, clock, wk>>

(***************************************************************************)
(* process_sync_jobs, statement by statement, for calls that overlap.  The *)
(* method takes no lock; each step below is one statement (or one group of *)
(* adjacent statements), run without interruption.  Every interleaving of  *)
(* these steps is an interleaving of two threads running the method.       *)
(***************************************************************************)
\* Line 816: the snapshot of the pending jobs.
P_Start(w) ==
    /\ wk[w].pc = "idle"
    /\ wk[w].runs < MaxRuns
    /\ wk' = [wk EXCEPT ![w] =
                 [pc   |-> "loop",
                  todo |-> InOrder(PendingIdx(sync_jobs), Len(sync_jobs)),
                  att0 |-> [i \in DOMAIN sync_jobs |-> sync_jobs[i].attempts],
                  did  |-> {},
                  runs |-> @.runs + 1]]
    /\ UNCHANGED <<connectors, sync_jobs, hist, clock, ret>>

\* Lines 825-827: the next job of the snapshot, its counter and timestamp.
P_Begin(w) ==
    /\ wk[w].pc = "loop"
    /\ wk[w].todo # <<>>
    /\ LET i == Head(wk[w].todo)
       IN /\ sync_jobs' = [sync_jobs EXCEPT ![i] = BeginAttempt(@, clock)]
          /\ wk' = [wk EXCEPT ![w].pc = "call", ![w].did = @ \cup {i}]
    /\ UNCHANGED <<connectors, hist, clock, ret>>

\* Lines 829-861: the delivery and what follows from its outcome.
P_End(w, outcome) ==
    /\ wk[w].pc = "call"
    /\ LET i == Head(wk[w].todo)
           r == sync_prescription(sync_jobs[i].ehr_system, outcome)
       IN /\ sync_jobs' = [sync_jobs EXCEPT ![i] = EndAttempt(@, r)]
          /\ hist' = [hist EXCEPT ![i].calls = @ + 1, ![i].last = Kind(r)]
          /\ wk' = [wk EXCEPT ![w].pc = "loop", ![w].todo = Tail(@)]
    /\ UNCHANGED <<connectors, clock, ret>>

\* Line 863: the snapshot is exhausted.
P_Return(w) ==
    /\ wk[w].pc = "loop"
    /\ wk[w].todo = <<>>
    /\ wk' = [wk EXCEPT ![w] = [IdleWorker EXCEPT !.runs = wk[w].runs]]
    /\ UNCHANGED <<connectors, sync_jobs, hist, clock, ret>>

(***************************************************************************)
(* HL7MessageQueue                                                         *)
(***************************************************************************)
\* The dict of lines 444-450.  The payload of the n-th enqueue call is n.
NewMessage(n, priority, t) ==
    [queue_id |-> t, message |-> n, priority |-> priority, status |-> "pending"]

\* InsertDesc placing a message before the queued ones of its own priority.
InsertDesc_BeforeEqual(sorted, m) ==
    LET before == {k \in DOMAIN sorted : sorted[k].priority > m.priority}
        n      == Cardinality(before)
    IN SubSeq(sorted, 1, n) \o <<m>> \o SubSeq(sorted, n + 1, Len(sorted))

\* One insertion of a stable sort by descending priority: m goes behind
\* every message whose priority is at least its own.
InsertDesc(sorted, m) ==
    LET before == {k \in DOMAIN sorted : sorted[k].priority >= m.priority}
        n      == Cardinality(before)
    IN SubSeq(sorted, 1, n) \o <<m>> \o SubSeq(sorted, n + 1, Len(sorted))

\* queue.sort(key = priority, reverse = True), line 453: list.sort is stable,
\* also with reverse = True.
RECURSIVE SortByPriority(_)
SortByPriority(q) ==
    IF q = <<>> THEN <<>>
    ELSE InsertDesc(SortByPriority(SubSeq(q, 1, Len(q) - 1)), q[Len(q)])

\* Lines 466-475 on a non-empty list: pop(0), marked as processing.
Popped(q) == [q[1] EXCEPT !.status = "processing"]

\* Line 487: the first queued message carrying the id, or 0.
FirstQueued(q, queue_id) ==
    LET hits == {k \in DOMAIN q : q[k].queue_id = queue_id}
    IN IF hits = {} THEN 0 ELSE CHOOSE k \in hits : \A j \in hits : k <= j

RemoveAt(q, k) == SubSeq(q, 1, k - 1) \o SubSeq(q, k + 1, Len(q))

CountStatus(q, st) == Cardinality({k \in DOMAIN q : q[k].status = st})

get_queue_status ==
    [pending         |-> CountStatus(queue, "pending"),
     processing      |-> CountStatus(queue, "processing"),
     total_processed |-> Len(processed),
     success_count   |-> CountStatus(processed, "success"),
     error_count     |-> CountStatus(processed, "error")]

IdleThread == [pc |-> "idle", queue_id |-> <<>>]

QueueInit ==
    /\ queue = <<>>
    /\ processed = <<>>
    /\ qclock = 0
    /\ enqueued = 0
    /\ qret = [op |-> "init", val |-> <<>>]
    /\ qt = [t \in QThreads |-> IdleThread]
    /\ delivered = <<>>

\* Time passes between calls.
QTick ==
    /\ qclock < MaxQTime
    /\ qclock' = qclock + 1
    /\ UNCHANGED <<queue, processed, enqueued, qret, qt, delivered>>

enqueue(priority) ==
    /\ enqueued < MaxMsgs
    /\ enqueued' = enqueued + 1
    /\ queue' = SortByPriority(
                    Append(queue, NewMessage(enqueued + 1, priority, qclock)))
    /\ qret' = [op |-> "enqueue", val |-> <<qclock>>]
    /\ UNCHANGED <<processed, qclock, qt, delivered>>

dequeue ==
    /\ IF queue = <<>>
       THEN /\ qret' = [op |-> "dequeue", val |-> <<>>]
            /\ UNCHANGED <<queue, delivered>>
       ELSE /\ queue' = Tail(queue)
            /\ delivered' = Append(delivered, Popped(queue))
            /\ qret' = [op |-> "dequeue", val |-> <<Popped(queue)>>]
    /\ UNCHANGED <<processed, qclock, enqueued, qt>>

mark_processed(queue_id, success) ==
    /\ LET k == FirstQueued(queue, queue_id)
       IN IF k = 0
          THEN UNCHANGED <<queue, processed>>
          ELSE /\ queue' = RemoveAt(queue, k)
               /\ processed' = Append(processed,
                      [queue[k] EXCEPT
                          !.status = IF success THEN "success" ELSE "error"])
    /\ qret' = [op |-> "mark_processed", val |-> <<>>,
                id |-> queue_id, success |-> success]
    /\ UNCHANGED <<qclock, enqueued, qt, delivered>>

get_queue_status_call ==
    /\ qret' = [op |-> "get_queue_status", val |-> <<get_queue_status>>]
    /\ UNCHANGED <<queue, processed, qclock, enqueued, qt, delivered>>

(***************************************************************************)
(* PrescriptionSubmissionGateway                                           *)
(***************************************************************************)
Formats == {"json", "ncpdp_script", "fhir_r4", "hl7_v2"}

\* required_fields of lines 159-162, in order.
RequiredFields ==
    <<"doctor_id", "doctor_name", "patient_id", "patient_name",
      "medications", "diagnosis">>

OtherFields == {"doctor_id", "doctor_name", "patient_id", "patient_name", "diagnosis"}

\* A payload: whether it is a mapping at all (None is not), the keys it
\* carries with a non-empty value, and its medications entry: absent, not a
\* list, an empty list or a list with items.
\* The required fields a payload lacks: none, any one, or the two names.
MissingSets ==
    {{}} \cup {{f} : f \in OtherFields} \cup {{"doctor_name", "patient_name"}}

MedKinds == {"absent", "not_list", "empty", "some"}
ExtraKeys == {{}, {"pharmacy_id"}, {"xml_content"}, {"resourceType"}}
Payloads ==
    {[dict |-> TRUE, keys |-> k \cup x, meds |-> m] :
        k \in {OtherFields \ miss : miss \in MissingSets},
        x \in ExtraKeys, m \in MedKinds}
    \cup {[dict |-> FALSE, keys |-> {}, meds |-> "absent"]}

Has(data, field) ==
    IF field = "medications" THEN data.meds # "absent" ELSE field \in data.keys

\* What the environment does to one call: nothing, the validation service
\* finds the payload invalid or raises, or the step named raises (the database
\* insert and the pharmacy notification are the calls lines 299-300 and
\* 313-315 reserve a place for).
Envs == {"none", "service_invalid", "service_raises",
         "normalize_raises", "store_raises", "forward_raises"}

\* str(uuid.uuid4())[:8].upper(): any of the 16^8 values; two stand for them.
TxIds == {"RX-D-A1", "RX-D-B2"}

\* Lines 163-168: one error per missing required field, in order.
RECURSIVE MissingErrors(_, _)
MissingErrors(data, n) ==
    IF n = 0 THEN <<>>
    ELSE LET rest == MissingErrors(data, n - 1)
         IN IF Has(data, RequiredFields[n])
            THEN rest
            ELSE Append(rest, <<RequiredFields[n], "Required field missing">>)

\* Lines 171-181.
MedicationErrors(data) ==
    CASE data.meds = "not_list" -> << <<"medications", "Must be a list">> >>
      [] data.meds = "empty"    -> << <<"medications", "At least one medication required">> >>
      [] OTHER                  -> <<>>

\* Lines 158-197: the checks of the declared format.  A payload that is no
\* mapping makes `in` and .get raise; HL7_V2 has no check.
FormatErrors(data, format) ==
    CASE format = "json" ->
            MissingErrors(data, Len(RequiredFields)) \o MedicationErrors(data)
      [] format = "ncpdp_script" ->
            IF "xml_content" \in data.keys THEN <<>>
            ELSE << <<"xml_content", "NCPDP SCRIPT XML content required">> >>
      [] format = "fhir_r4" ->
            IF "resourceType" \in data.keys THEN <<>>
            ELSE << <<"resourceType", "FHIR resourceType required">> >>
      [] OTHER -> <<>>

\* _validate_prescription, lines 140-208.
validate_prescription(data, format, service, env) ==
    IF ~data.dict /\ format # "hl7_v2"
    THEN [raised |-> TRUE, valid |-> FALSE, errors |-> <<>>]
    ELSE LET errors == FormatErrors(data, format)
         IN IF service /\ errors = <<>>
            THEN CASE env = "service_raises" ->
                        [raised |-> TRUE, valid |-> FALSE, errors |-> <<>>]
                   [] env = "service_invalid" ->
                        [raised |-> FALSE, valid |-> FALSE,
                         errors |-> << <<"service", "invalid">> >>]
                   [] OTHER ->
                        [raised |-> FALSE, valid |-> TRUE, errors |-> <<>>]
            ELSE [raised |-> FALSE, valid |-> errors = <<>>, errors |-> errors]

\* _normalize_prescription, lines 210-242: JSON is kept as it is; the three
\* parsers of lines 319-332 return an empty dict.
normalize_prescription(data, format) ==
    IF format = "json" THEN data
    ELSE [dict |-> TRUE, keys |-> {}, meds |-> "absent"]

\* The record _store_prescription builds, lines 279-297 (the fields the
\* claims are about).
StoredRecord(tx, normalized, format) ==
    [prescription_tx_id |-> tx,
     medications        |-> normalized.meds,
     original_format    |-> format]

\* The handler of lines 129-138 letting the exception through.
Caught_Propagates(cause, steps, stored) ==
    [status |-> "processing", prescription_tx_id |-> <<>>,
     message |-> <<"exception", cause>>,
     errors |-> <<>>, raised |-> TRUE, steps |-> steps, stored |-> stored]

\* The handler of lines 129-138.
Caught(cause, steps, stored) ==
    [status |-> "error", prescription_tx_id |-> <<>>,
     message |-> <<"Submission error", cause>>,
     errors |-> << <<"error", cause>> >>,
     raised |-> FALSE, steps |-> steps, stored |-> stored]

\* The five steps of submit_prescription in the order of lines 88, 101, 104,
\* 107 and 117.
StepOrder == <<"validate", "normalize", "generate", "store", "forward">>

\* Rejected going on to normalization before it returns.
Rejected_Normalizes(errors) ==
    [status |-> "rejected", prescription_tx_id |-> <<>>,
     message |-> <<"Validation failed">>,
     errors |-> errors, raised |-> FALSE,
     steps |-> <<"validate", "normalize">>, stored |-> <<>>]

\* Lines 91-98.
Rejected(errors) ==
    [status |-> "rejected", prescription_tx_id |-> <<>>,
     message |-> <<"Validation failed">>,
     errors |-> errors, raised |-> FALSE, steps |-> <<"validate">>, stored |-> <<>>]

\* Lines 121-127.
Transmitted(tx, rec) ==
    [status |-> "transmitted", prescription_tx_id |-> <<tx>>,
     message |-> <<"Prescription submitted and transmitted successfully">>,
     errors |-> <<>>, raised |-> FALSE,
     steps |-> <<"validate", "normalize", "generate", "store", "forward">>,
     stored |-> <<rec>>]

\* The body of submit_prescription, lines 86-138: what the call returns, the
\* steps it took and what it handed to storage.
SubmitOutcome(data, format, service, env, tx) ==
    LET v == validate_prescription(data, format, service, env)
    IN IF v.raised THEN Caught("validate", <<"validate">>, <<>>)
       ELSE IF ~v.valid THEN Rejected(v.errors)
       ELSE IF env = "normalize_raises"
            THEN Caught("normalize", <<"validate", "normalize">>, <<>>)
       ELSE LET rec == StoredRecord(tx, normalize_prescription(data, format), format)
            IN IF env = "store_raises"
               THEN Caught("store",
                           <<"validate", "normalize", "generate", "store">>, <<>>)
               ELSE IF env = "forward_raises"
               THEN Caught("forward",
                           <<"validate", "normalize", "generate", "store", "forward">>,
                           <<rec>>)
               ELSE Transmitted(tx, rec)

NoResponse ==
    [status |-> "none", prescription_tx_id |-> <<>>, message |-> <<>>,
     errors |-> <<>>, raised |-> FALSE, steps |-> <<>>, stored |-> <<>>]

\* What the last call was given: the declared format, the payload's
\* medications entry, whether the payload carries exactly the keys doctor_id,
\* patient_id and diagnosis beside it, and what the environment did.
Request(data, format, env) ==
    [format  |-> format,
     meds    |-> data.meds,
     example |-> data.dict /\ data.keys = {"doctor_id", "patient_id", "diagnosis"},
     env     |-> env]

NoRequest == [format |-> "none", meds |-> "absent", example |-> FALSE, env |-> "none"]

\* The transaction IDs a response carries: the one of a TRANSMITTED response.
Issued(out) == IF out.status = "transmitted" THEN out.prescription_tx_id ELSE <<>>

GatewayInit ==
    gw = [built |-> FALSE, service |-> FALSE, count |-> 0, stored |-> <<>>,
          txs |-> <<>>, req |-> NoRequest, resp |-> NoResponse]

\* __init__, lines 51-60: with or without a validation service.
gateway_init(service) ==
    /\ ~gw.built
    /\ gw' = [gw EXCEPT !.built = TRUE, !.service = service]

submit_prescription(data, format, env, tx) ==
    /\ gw.built
    /\ gw.count < MaxSubmissions
    /\ LET out == SubmitOutcome(data, format, gw.service, env, tx)
       IN gw' = [gw EXCEPT !.count = @ + 1,
                           !.stored = @ \o out.stored,
                           !.txs = @ \o Issued(out),
                           !.req = Request(data, format, env),
                           !.resp = out]

(***************************************************************************)
(* EHRAuthenticator and EHRConnector._make_request                         *)
(***************************************************************************)
\* expires_in of a token response, in seconds.
ExpiresIns == 1..MaxExpiresIn
TokenThreads == {"a1", "a2"}

\* What a token endpoint call comes to: a token response, or an HTTP error
\* that raise_for_status turns into an exception.
TokenOutcomes == {"ok", "http_error"}

\* __init__, lines 40-42: no access token, no refresh token, no expiry.
NewAuthenticator ==
    [access_token |-> <<>>, refresh_token |-> <<>>, token_expires_at |-> <<>>]

\* is_token_expired, lines 146-151.
is_token_expired(a, now) ==
    IF a.token_expires_at = <<>> THEN TRUE ELSE now >= a.token_expires_at[1]

\* The assignments of lines 136-140 once the token response is in.
Refreshed(a, token, expires_in, now) ==
    [a EXCEPT !.access_token = <<token>>,
              !.token_expires_at = <<now + expires_in>>]

\* refresh_access_token, lines 111-144.
refresh_access_token(a, outcome, token, expires_in, now) ==
    IF a.refresh_token = <<>>
    THEN [raised |-> TRUE, auth |-> a]
    ELSE IF outcome # "ok"
         THEN [raised |-> TRUE, auth |-> a]
         ELSE [raised |-> FALSE, auth |-> Refreshed(a, token, expires_in, now)]

\* The test of line 163.
NeedsRefresh(a, now) == is_token_expired(a, now) /\ a.refresh_token # <<>>

\* get_access_token, lines 153-166: the authenticator after the call and
\* what the call returned.
get_access_token(a, outcome, token, expires_in, now) ==
    IF NeedsRefresh(a, now)
    THEN LET r == refresh_access_token(a, outcome, token, expires_in, now)
         IN [raised |-> r.raised, auth |-> r.auth,
             val |-> IF r.raised THEN <<>> ELSE r.auth.access_token,
             refreshed |-> ~r.raised]
    ELSE [raised |-> FALSE, auth |-> a, val |-> a.access_token,
          refreshed |-> FALSE]

\* The Authorization header of line 237, built from the access_token field
\* as it stands: the token it carries (None gives "Bearer None"), whether the
\* authenticator's expiry had passed and whether a refresh token was held.
AuthorizationHeader(a, now) ==
    [token        |-> a.access_token,
     expired      |-> is_token_expired(a, now),
     refresh_held |-> a.refresh_token # <<>>]

\* What the EHR answers to a request: one carrying no token or an expired
\* one is refused or lost, any other may also be served.
RequestOutcomes(h) ==
    IF h.token = <<>> \/ h.expired THEN {"http_error", "transport"}
    ELSE {"ok", "http_error", "transport"}

IdleTokenThread == [pc |-> "idle", saw |-> <<>>]

TokenInit ==
    /\ auth = NewAuthenticator
    /\ tnow = 0
    /\ issued = 0
    /\ sent = [n |-> 0, header |-> AuthorizationHeader(NewAuthenticator, 0)]
    /\ aret = [op |-> "init", val |-> <<>>, raised |-> FALSE]
    /\ th = [t \in TokenThreads |-> IdleTokenThread]

TokenTick ==
    /\ tnow < MaxTokenTime
    /\ tnow' = tnow + 1
    /\ UNCHANGED <<auth, issued, sent, aret, th>>

\* exchange_code_for_token, lines 72-105: the response may or may not carry
\* a refresh token.
exchange_code_for_token(outcome, with_refresh, expires_in) ==
    /\ issued < MaxTokens
    /\ IF outcome = "ok"
       THEN /\ issued' = issued + 1
            /\ auth' = [access_token     |-> <<issued + 1>>,
                        refresh_token    |-> IF with_refresh THEN <<"refresh">> ELSE <<>>,
                        token_expires_at |-> <<tnow + expires_in>>]
            /\ aret' = [op |-> "exchange", val |-> <<issued + 1>>, raised |-> FALSE]
       ELSE /\ aret' = [op |-> "exchange", val |-> <<>>, raised |-> TRUE]
            /\ UNCHANGED <<auth, issued>>
    /\ UNCHANGED <<tnow, sent, th>>

get_access_token_call(outcome, expires_in) ==
    /\ issued < MaxTokens
    /\ LET r == get_access_token(auth, outcome, issued + 1, expires_in, tnow)
       IN /\ auth' = r.auth
          /\ issued' = IF r.refreshed THEN issued + 1 ELSE issued
          /\ aret' = [op |-> "get_access_token", val |-> r.val, raised |-> r.raised]
    /\ UNCHANGED <<tnow, sent, th>>

\* _make_request, lines 215-260: the request goes out with the header of
\* line 237; the response is returned or the exception raised again.
make_request(outcome) ==
    /\ sent.n < MaxRequests
    /\ outcome \in RequestOutcomes(AuthorizationHeader(auth, tnow))
    /\ sent' = [n |-> sent.n + 1, header |-> AuthorizationHeader(auth, tnow)]
    /\ aret' = [op |-> "request", val |-> <<outcome>>, raised |-> outcome # "ok"]
    /\ UNCHANGED <<auth, tnow, issued, th>>

(***************************************************************************)
(* get_access_token statement by statement, for calls that overlap on one  *)
(* authenticator.  The class holds no lock.                                *)
(***************************************************************************)
\* Line 163: the test; saw is the expiry the test found passed.
A_Check(t) ==
    /\ th[t].pc = "idle"
    /\ IF NeedsRefresh(auth, tnow)
       THEN th' = [th EXCEPT ![t] = [pc |-> "post", saw |-> <<auth.token_expires_at>>]]
       ELSE th' = [th EXCEPT ![t].pc = "return"]
    /\ UNCHANGED <<auth, tnow, issued, sent, aret>>

\* Lines 120-131: the refresh-token test of line 120, then the refresh
\* request leaves for the token endpoint.
A_Post(t) ==
    /\ th[t].pc = "post"
    /\ issued < MaxTokens
    /\ IF auth.refresh_token = <<>>
       THEN /\ th' = [th EXCEPT ![t] = IdleTokenThread]
            /\ aret' = [op |-> "get_access_token", val |-> <<>>, raised |-> TRUE]
       ELSE /\ th' = [th EXCEPT ![t].pc = "wait"]
            /\ UNCHANGED aret
    /\ UNCHANGED <<auth, tnow, issued, sent>>

\* Lines 132-144: the response arrives and the fields are assigned.
A_Response(t, outcome, expires_in) ==
    /\ th[t].pc = "wait"
    /\ IF outcome = "ok"
       THEN /\ auth' = Refreshed(auth, issued + 1, expires_in, tnow)
            /\ issued' = issued + 1
            /\ th' = [th EXCEPT ![t].pc = "return"]
            /\ UNCHANGED aret
       ELSE /\ th' = [th EXCEPT ![t] = IdleTokenThread]
            /\ aret' = [op |-> "get_access_token", val |-> <<>>, raised |-> TRUE]
            /\ UNCHANGED <<auth, issued>>
    /\ UNCHANGED <<tnow, sent>>

\* Line 166.
A_Return(t) ==
    /\ th[t].pc = "return"
    /\ th' = [th EXCEPT ![t] = IdleTokenThread]
    /\ aret' = [op |-> "get_access_token", val |-> auth.access_token, raised |-> FALSE]
    /\ UNCHANGED <<auth, tnow, issued, sent>>

(***************************************************************************)
(* HL7Validator                                                            *)
(***************************************************************************)
\* An HL7 string is the list of the pieces its "\r" characters separate,
\* each piece a list of characters; the empty string is one empty piece.
SegmentTexts ==
    { <<>>,
      <<" ">>,
      <<"P", "V">>,
      <<"M", "S", "H", "|">>,
      <<"P", "I", "D", "|">>,
      <<"p", "i", "d", "|">>,
      <<"1", "2", "3", "|">> }

RECURSIVE SeqsUpTo(_, _)
SeqsUpTo(S, n) ==
    IF n = 0 THEN {<<>>}
    ELSE LET shorter == SeqsUpTo(S, n - 1)
         IN shorter \cup {Append(q, x) : q \in {r \in shorter : Len(r) = n - 1}, x \in S}

HL7Strings == SeqsUpTo(SegmentTexts, MaxSegments) \ {<<>>}

UpperChars == {"M", "S", "H", "P", "I", "D", "V"}
LowerChars == {"p", "i", "d"}

\* str.isupper(): at least one cased character and no lower-case one.
IsUpper(chars) ==
    /\ \E k \in DOMAIN chars : chars[k] \in UpperChars
    /\ \A k \in DOMAIN chars : chars[k] \notin LowerChars

\* line.strip() is empty.
IsBlank(line) == \A k \in DOMAIN line : line[k] = " "

\* `not hl7_string`, line 379.
IsEmptyString(msg) == msg = << <<>> >>

\* hl7_string.startswith("MSH"), line 384: a first piece shorter than three
\* characters is followed by "\r" or by the end of the string.
StartsWithMSH(msg) ==
    Len(msg[1]) >= 3 /\ SubSeq(msg[1], 1, 3) = <<"M", "S", "H">>

\* Lines 393-404: the errors of the lines up to line n, in order.  An error
\* is the number of its line (0 for the whole message) and its text.
RECURSIVE SegmentErrors(_, _)
SegmentErrors(msg, n) ==
    IF n = 0 THEN <<>>
    ELSE LET rest == SegmentErrors(msg, n - 1)
             line == msg[n]
         IN IF IsBlank(line) THEN rest
            ELSE IF Len(line) < 3
                 THEN Append(rest, <<n, "Segment too short">>)
            ELSE IF ~IsUpper(SubSeq(line, 1, 3))
                 THEN Append(rest, <<n, "Invalid segment ID">>)
            ELSE rest

\* Lines 383-404: the checks made before the parser is called.
StructuralErrors(msg) ==
    (IF StartsWithMSH(msg) THEN <<>>
     ELSE << <<0, "Message must start with MSH segment">> >>)
    \o (IF Len(msg) < 2
        THEN << <<0, "Message must contain at least 2 segments">> >>
        ELSE <<>>)
    \o SegmentErrors(msg, Len(msg))

\* What hl7apy's parse_message does with the string: it returns or raises.
ParseOutcomes == {"parsed", "raises"}

\* validate_message, lines 366-419: (is_valid, errors), with whether the
\* parser was called and how many errors there were when it was.
validate_message(msg, parse) ==
    IF IsEmptyString(msg)
    THEN [valid |-> FALSE, errors |-> << <<0, "Empty message">> >>,
          parse_called |-> FALSE, before_parse |-> 1]
    ELSE LET structural == StructuralErrors(msg)
             errors == IF parse = "raises"
                       THEN Append(structural, <<0, "Parsing error">>)
                       ELSE structural
         IN [valid |-> errors = <<>>, errors |-> errors,
             parse_called |-> TRUE, before_parse |-> Len(structural)]

ValidatorInit ==
    hv = [called |-> FALSE, msg |-> << <<>> >>,
          res |-> validate_message(<< <<>> >>, "parsed")]

validate_message_call(msg, parse) ==
    hv' = [called |-> TRUE, msg |-> msg, res |-> validate_message(msg, parse)]

(***************************************************************************)
(* EHRIntegrationService.get_patient_context                               *)
(***************************************************************************)
\* register_connector, lines 527-536.
register_connector(ehr_system) ==
    /\ connectors' = connectors \cup {ehr_system}
    /\ UNCHANGED <<sync_jobs, hist, clock, ret, wk>>

\* hasattr(connector, method): EpicConnector defines get_allergies (line
\* 360) and get_conditions (line 386), CernerConnector (lines 414-463)
\* neither.
HasMethod(ehr_system, method) == ehr_system = "epic"

CallOutcomes == {"ok", "raises"}

\* FHIR resources by what they carry: a code with a text, a code with a
\* coding only, or no code.
ResourceKinds == {"text", "coded", "bare"}
AllergyLists == SeqsUpTo(ResourceKinds, MaxEntries)
ConditionLists == {<<>>, <<"text">>}
MedicationLists == {<<>>, <<"coded">>}

\* What the EHR does during one get_patient_context call.
ContextEnvs ==
    [patient      : CallOutcomes,
     medications  : CallOutcomes,
     allergies    : CallOutcomes,
     conditions   : CallOutcomes,
     medication_list : MedicationLists,
     allergy_list    : AllergyLists,
     condition_list  : ConditionLists]

\* OptionalCall keeping what a failed call had fetched.
OptionalCall_IgnoresFailure(has, outcome, resources) ==
    IF has THEN resources ELSE <<>>

\* Lines 580-585 and 588-593: the list starts empty; the call is made only
\* if the connector has the method, and its failure is caught.
OptionalCall(has, outcome, resources) ==
    IF has /\ outcome = "ok" THEN resources ELSE <<>>

\* code.get("text") or the first coding's display, "Unknown" by default
\* (line 734); code.get("text", "Unknown") (lines 719 and 748).
ResourceName(kind) ==
    CASE kind = "text"  -> "text"
      [] kind = "coded" -> "display"
      [] OTHER          -> "Unknown"

ResourceText(kind) == IF kind = "text" THEN "text" ELSE "Unknown"

\* _extract_allergy_summaries, lines 727-737.
extract_allergy_summaries(resources) ==
    [k \in DOMAIN resources |-> ResourceName(resources[k])]

\* _extract_medication_summaries (lines 710-725) and
\* _extract_condition_summaries (lines 739-753): the name of each summary.
extract_summaries(resources) ==
    [k \in DOMAIN resources |-> ResourceText(resources[k])]

ContextRaised(ehr_system) ==
    [raised |-> TRUE, current_medications |-> <<>>, allergies |-> <<>>,
     conditions |-> <<>>, source_ehr |-> ehr_system]

\* get_patient_context, lines 555-614.
get_patient_context(ehr_system, env) ==
    IF get_connector(ehr_system) = "ValueError" THEN ContextRaised(ehr_system)
    ELSE IF env.patient # "ok" \/ env.medications # "ok"
         THEN ContextRaised(ehr_system)
    ELSE LET allergies  == OptionalCall(HasMethod(ehr_system, "get_allergies"),
                                        env.allergies, env.allergy_list)
             conditions == OptionalCall(HasMethod(ehr_system, "get_conditions"),
                                        env.conditions, env.condition_list)
         IN [raised |-> FALSE,
             current_medications |-> extract_summaries(env.medication_list),
             allergies  |-> extract_allergy_summaries(allergies),
             conditions |-> extract_summaries(conditions),
             source_ehr |-> ehr_system]

NoContextEnv ==
    [patient |-> "ok", medications |-> "ok", allergies |-> "ok",
     conditions |-> "ok", medication_list |-> <<>>, allergy_list |-> <<>>,
     condition_list |-> <<>>]

ContextInit ==
    pctx = [called |-> FALSE, ehr_system |-> "none", registered |-> FALSE,
            env |-> NoContextEnv, res |-> ContextRaised("none")]

get_patient_context_call(ehr_system, env) ==
    pctx' = [called |-> TRUE, ehr_system |-> ehr_system,
             registered |-> ehr_system \in connectors,
             env |-> env, res |-> get_patient_context(ehr_system, env)]

(***************************************************************************)
(* DispensingAPI.record_dispensation, statement by statement, for calls    *)
(* that overlap.  The class holds no lock and opens no transaction.  The   *)
(* central database is the persistence collaborator behind                 *)
(* _get_prescription, _store_dispensation and _mark_prescription_dispensed.*)
(***************************************************************************)
DispenseThreads == {"d1", "d2"}

\* Transaction IDs asked for: one of a stored prescription, one unknown.
DispenseTxIds == {"RX-1", "RX-0"}

IdleDispenser == [pc |-> "idle", tx |-> "none", calls |-> 0]

\* A response of record_dispensation (lines 73-148).
DispenseResponse(success, tx, message) ==
    [success |-> success, prescription_tx_id |-> tx, message |-> message]

\* Lines 255-275: the numbers of dispensed and prescribed medications match.
validate_medications(same_number) ==
    IF same_number THEN [valid |-> TRUE, message |-> "Medications validated"]
    ELSE [valid |-> FALSE,
          message |-> "Number of dispensed medications does not match prescription"]

\* Lines 73-103: what the checks make of the row _get_prescription read.
\* The empty tuple stands for going on to the store.
CheckPrescription(rows, tx, same_number) ==
    IF tx \notin DOMAIN rows
    THEN <<DispenseResponse(FALSE, tx, "Prescription not found")>>
    ELSE IF rows[tx].is_dispensed
    THEN <<DispenseResponse(FALSE, tx, "Prescription already dispensed")>>
    ELSE IF ~validate_medications(same_number).valid
    THEN <<DispenseResponse(FALSE, tx, "Medication validation failed")>>
    ELSE <<>>

DispenseInit ==
    disp = [rows    |-> [tx \in {"RX-1"} |-> [is_dispensed |-> FALSE]],
            stored  |-> <<>>,
            th      |-> [t \in DispenseThreads |-> IdleDispenser],
            ret     |-> <<>>]

\* Lines 73-103: the prescription is read and checked.
R_Check(t, tx, same_number) ==
    /\ disp.th[t].pc = "idle"
    /\ disp.th[t].calls < MaxDispenseCalls
    /\ LET r == CheckPrescription(disp.rows, tx, same_number)
       IN IF r # <<>>
          THEN disp' = [disp EXCEPT !.th[t].calls = @ + 1, !.ret = r]
          ELSE disp' = [disp EXCEPT !.th[t] = [pc |-> "store", tx |-> tx,
                                               calls |-> @.calls + 1]]

\* Lines 106-121: the dispensation is stored, or the insert raises and the
\* handler of lines 140-148 answers.
R_Store(t, raises) ==
    /\ disp.th[t].pc = "store"
    /\ IF raises
       THEN disp' = [disp EXCEPT
                        !.th[t].pc = "idle",
                        !.ret = <<DispenseResponse(FALSE, disp.th[t].tx,
                                                   "Dispensation error")>>]
       ELSE disp' = [disp EXCEPT
                        !.th[t].pc = "mark",
                        !.stored = Append(@, [prescription_tx_id |-> disp.th[t].tx,
                                              by |-> t])]

\* Line 124 (lines 314-318): the prescription is marked as dispensed.
R_Mark(t) ==
    /\ disp.th[t].pc = "mark"
    /\ disp' = [disp EXCEPT !.th[t].pc = "return",
                            !.rows[disp.th[t].tx].is_dispensed = TRUE]

\* Lines 127-138.
R_Return(t) ==
    /\ disp.th[t].pc = "return"
    /\ disp' = [disp EXCEPT
                   !.th[t].pc = "idle",
                   !.ret = <<DispenseResponse(TRUE, disp.th[t].tx,
                                              "Dispensation recorded successfully")>>]

(***************************************************************************)
(* The codecs: src/src/integrations/fhir_integration.py, FHIRConverter,    *)
(* and src/src/integrations/hl7_integration.py, HL7MessageBuilder and      *)
(* HL7Parser                                                               *)
(***************************************************************************)
\* The values of a prescription dictionary: a key that is missing, None, a
\* str, an int (its digits).
Missing == [t |-> "absent", v |-> ""]
PyNone == [t |-> "none", v |-> ""]
StrVal(s) == [t |-> "str", v |-> s]
IntVal(s) == [t |-> "int", v |-> s]

\* dict.get(key, default); dict.get(key) is GetOr(x, PyNone).
GetOr(x, default) == IF x.t = "absent" THEN default ELSE x

\* The truth value of `if x:`.
Truthy(x) == (x.t = "str" /\ x.v # "") \/ (x.t = "int" /\ x.v # "0")

\* What an f-string or str() makes of a value.
TextOf(x) == IF x.t = "none" THEN "None" ELSE x.v

\* str.lower(), str.upper()[0] and str.replace("-", "") on the strings used.
LowerText(s) ==
    CASE s = "Male" -> "male"
      [] s = "M"    -> "m"
      [] OTHER      -> s

UpperFirst(s) ==
    CASE s \in {"male", "Male", "M"} -> "M"
      [] s \in {"female", "F"}       -> "F"
      [] OTHER                       -> "U"

NoDashes(s) ==
    CASE s = "1990-01-15" -> "19900115"
      [] OTHER            -> s

\* An address dictionary, or no address.
NoAddress ==
    [t |-> "absent", street |-> Missing, city |-> Missing,
     state |-> Missing, zip |-> Missing]

AddressDict(street, city, state, zip) ==
    [t |-> "dict", street |-> street, city |-> city, state |-> state, zip |-> zip]

PatientFields ==
    {"id", "first_name", "last_name", "dob", "gender", "phone", "email", "mrn"}
PractitionerFields ==
    {"id", "first_name", "last_name", "npi", "specialty", "phone"}
MedicationFields ==
    {"id", "name", "rxnorm_code", "dosage_instruction", "quantity", "refills",
     "notes", "dosage_form"}

EmptyPatient == [f \in PatientFields |-> Missing] @@ [address |-> NoAddress]
EmptyPractitioner == [f \in PractitionerFields |-> Missing]
EmptyPrescription ==
    [prescription_id |-> Missing, patient |-> EmptyPatient,
     practitioner |-> EmptyPractitioner, medications |-> <<>>]

\* The patient, the practitioner and a medication of a prescription handed
\* to the encoders, and those prescriptions.
PatientOf(mrn, contact, iso) ==
    [id         |-> StrVal("P1"),
     first_name |-> StrVal("Ali"),
     last_name  |-> StrVal("Hassan"),
     dob        |-> StrVal(IF iso THEN "1990-01-15" ELSE "19900115"),
     gender     |-> StrVal(IF iso THEN "male" ELSE "M"),
     phone      |-> IF contact = "none" THEN Missing ELSE StrVal("0100"),
     email      |-> IF contact = "all" THEN StrVal("a@b.eg") ELSE Missing,
     address    |-> IF contact = "none" THEN NoAddress
                    ELSE AddressDict(StrVal("1 Nile St"), StrVal("Cairo"),
                                     StrVal("C"), StrVal("11511")),
     mrn        |-> mrn]

PractitionerOf(kind) ==
    [id         |-> IF kind = "names" THEN Missing ELSE StrVal("D1"),
     first_name |-> StrVal("Mona"),
     last_name  |-> StrVal("Said"),
     npi        |-> StrVal("1234567890"),
     specialty  |-> IF kind = "specialty" THEN StrVal("Cardiology") ELSE Missing,
     phone      |-> IF kind = "names" THEN Missing ELSE StrVal("0200")]

MedicationOf(id, quantity, refills, notes) ==
    [id |-> id, name |-> StrVal("Aspirin"), rxnorm_code |-> StrVal("1191"),
     dosage_instruction |-> StrVal("1 daily"), quantity |-> quantity,
     refills |-> refills, notes |-> notes, dosage_form |-> Missing]

Prescriptions ==
    {[prescription_id |-> StrVal("RX-1"), patient |-> p, practitioner |-> d,
      medications |-> ms] :
        p \in {PatientOf(mrn, contact, iso) :
                  mrn \in {Missing, StrVal("MRN-1")},
                  contact \in {"none", "all"},
                  iso \in BOOLEAN},
        d \in {PractitionerOf(kind) : kind \in {"names", "specialty"}},
        ms \in SeqsUpTo(
                  {MedicationOf(StrVal("M1"), IntVal("30"), IntVal("2"), Missing),
                   MedicationOf(StrVal("M2"), IntVal("30"), IntVal("0"),
                                StrVal("after meals")),
                   MedicationOf(Missing, StrVal("30"), StrVal("2"), Missing),
                   MedicationOf(StrVal("M4"), IntVal("0"), Missing, Missing)},
                  MaxMeds)}

\* FHIRResourceBuilder ----------------------------------------------------
SYSTEM_RXNORM == "http://www.nlm.nih.gov/research/umls/rxnorm"
SYSTEM_NPI == "http://hl7.org/fhir/sid/us-npi"

\* build_patient_resource, lines 51-157, then .dict(): a list that was given
\* as None is the empty list here, which .get(key, []) reads the same.
build_patient_resource(patient_id, first_name, last_name, dob, gender, phone, email, address, mrn) ==
    [resourceType |-> "Patient",
     id           |-> patient_id,
     identifier   |-> <<[system |-> "http://healthflow.ai/patient-id",
                         value |-> patient_id]>>
                      \o (IF Truthy(mrn)
                          THEN <<[system |-> "http://healthflow.ai/mrn", value |-> mrn]>>
                          ELSE <<>>),
     name         |-> <<[family |-> last_name, given |-> <<first_name>>]>>,
     telecom      |-> (IF Truthy(phone)
                       THEN <<[system |-> "phone", value |-> phone]>> ELSE <<>>)
                      \o (IF Truthy(email)
                          THEN <<[system |-> "email", value |-> email]>> ELSE <<>>),
     address      |-> IF address.t = "dict"
                      THEN <<[line       |-> <<GetOr(address.street, PyNone)>>,
                              city       |-> GetOr(address.city, PyNone),
                              state      |-> GetOr(address.state, PyNone),
                              postalCode |-> GetOr(address.zip, PyNone),
                              country    |-> StrVal("US")]>>
                      ELSE <<>>,
     birthDate    |-> dob,
     gender       |-> StrVal(LowerText(gender.v))]

\* build_practitioner_resource, lines 159-238.
build_practitioner_resource(practitioner_id, first_name, last_name, npi, specialty, phone) ==
    [resourceType  |-> "Practitioner",
     id            |-> practitioner_id,
     identifier    |-> <<[system |-> SYSTEM_NPI, value |-> npi],
                         [system |-> "http://healthflow.ai/practitioner-id",
                          value |-> practitioner_id]>>,
     name          |-> <<[family |-> last_name, given |-> <<first_name>>]>>,
     telecom       |-> IF Truthy(phone)
                       THEN <<[system |-> "phone", value |-> phone]>> ELSE <<>>,
     qualification |-> IF Truthy(specialty) THEN <<[display |-> specialty]>> ELSE <<>>]

\* build_medication_request, lines 240-342.
build_medication_request(request_id, medication_name, medication_code, dosage_instruction, quantity, refills, notes) ==
    [resourceType |-> "MedicationRequest",
     id           |-> request_id,
     medicationCodeableConcept |->
         [coding |-> <<[system |-> SYSTEM_RXNORM, code |-> medication_code]>>,
          text   |-> medication_name],
     dosageInstruction |-> <<[text |-> dosage_instruction, route |-> "Oral route"]>>,
     dispenseRequest |->
         [quantity |-> IF Truthy(quantity) THEN quantity ELSE Missing,
          numberOfRepeatsAllowed |-> IF refills.t # "none" THEN refills ELSE Missing],
     note         |-> IF Truthy(notes) THEN <<[text |-> notes]>> ELSE <<>>]

\* FHIRConverter ----------------------------------------------------------
\* prescription_to_fhir, lines 401-462: the entries of the bundle.
prescription_to_fhir(prescription_data) ==
    LET patient_data == prescription_data.patient
        practitioner_data == prescription_data.practitioner
    IN << build_patient_resource(
              GetOr(patient_data.id, PyNone),
              GetOr(patient_data.first_name, PyNone),
              GetOr(patient_data.last_name, PyNone),
              GetOr(patient_data.dob, PyNone),
              GetOr(patient_data.gender, StrVal("unknown")),
              GetOr(patient_data.phone, PyNone),
              GetOr(patient_data.email, PyNone),
              patient_data.address,
              GetOr(patient_data.mrn, PyNone)),
          build_practitioner_resource(
              GetOr(practitioner_data.id, PyNone),
              GetOr(practitioner_data.first_name, PyNone),
              GetOr(practitioner_data.last_name, PyNone),
              GetOr(practitioner_data.npi, PyNone),
              GetOr(practitioner_data.specialty, PyNone),
              GetOr(practitioner_data.phone, PyNone)) >>
       \o [k \in DOMAIN prescription_data.medications |->
              LET medication == prescription_data.medications[k]
              IN build_medication_request(
                     GetOr(medication.id, PyNone),
                     GetOr(medication.name, PyNone),
                     GetOr(medication.rxnorm_code, PyNone),
                     GetOr(medication.dosage_instruction, PyNone),
                     GetOr(medication.quantity, PyNone),
                     GetOr(medication.refills, PyNone),
                     GetOr(medication.notes, PyNone))]

\* next((t.get("value") for t in telecom if t.get("system") == system), None)
FirstValue(list, system) ==
    LET hits == {k \in DOMAIN list : list[k].system = system}
    IN IF hits = {} THEN PyNone
       ELSE list[CHOOSE k \in hits : \A j \in hits : k <= j].value

\* _extract_patient_data, lines 502-525.
extract_patient_data(patient_resource) ==
    LET name == patient_resource.name[1]
        telecom == patient_resource.telecom
        no_address == patient_resource.address = <<>>
    IN [id         |-> patient_resource.id,
        first_name |-> name.given[1],
        last_name  |-> name.family,
        dob        |-> patient_resource.birthDate,
        gender     |-> patient_resource.gender,
        phone      |-> FirstValue(telecom, "phone"),
        email      |-> FirstValue(telecom, "email"),
        address    |->
            AddressDict(
                IF no_address THEN StrVal("") ELSE patient_resource.address[1].line[1],
                IF no_address THEN PyNone ELSE patient_resource.address[1].city,
                IF no_address THEN PyNone ELSE patient_resource.address[1].state,
                IF no_address THEN PyNone ELSE patient_resource.address[1].postalCode),
        mrn        |-> Missing]

\* _extract_practitioner_data, lines 527-547.
extract_practitioner_data(practitioner_resource) ==
    LET name == practitioner_resource.name[1]
    IN [id         |-> practitioner_resource.id,
        first_name |-> name.given[1],
        last_name  |-> name.family,
        npi        |-> FirstValue(practitioner_resource.identifier, SYSTEM_NPI),
        specialty  |-> Missing,
        phone      |-> FirstValue(practitioner_resource.telecom, "phone")]

\* _extract_medication_data, lines 549-569.
extract_medication_data(med_request_resource) ==
    LET medication_concept == med_request_resource.medicationCodeableConcept
        dosage == med_request_resource.dosageInstruction[1]
        dispense == med_request_resource.dispenseRequest
        rxnorm == {k \in DOMAIN medication_concept.coding :
                      medication_concept.coding[k].system = SYSTEM_RXNORM}
    IN [id          |-> med_request_resource.id,
        name        |-> medication_concept.text,
        rxnorm_code |-> IF rxnorm = {} THEN PyNone
                        ELSE medication_concept.coding[
                                 CHOOSE k \in rxnorm : \A j \in rxnorm : k <= j].code,
        dosage_instruction |-> dosage.text,
        quantity    |-> GetOr(dispense.quantity, PyNone),
        refills     |-> GetOr(dispense.numberOfRepeatsAllowed, PyNone),
        notes       |-> Missing,
        dosage_form |-> Missing]

\* fhir_to_prescription, lines 464-500: the loop over bundle.entry, entry n
\* handled after the n - 1 before it.
RECURSIVE fhir_to_prescription(_, _)
fhir_to_prescription(entry, n) ==
    IF n = 0 THEN EmptyPrescription
    ELSE LET prescription_data == fhir_to_prescription(entry, n - 1)
             resource == entry[n]
             resource_type == resource.resourceType
         IN CASE resource_type = "Patient" ->
                   [prescription_data EXCEPT
                       !.patient = extract_patient_data(resource)]
              [] resource_type = "Practitioner" ->
                   [prescription_data EXCEPT
                       !.practitioner = extract_practitioner_data(resource)]
              [] resource_type = "MedicationRequest" ->
                   [prescription_data EXCEPT
                       !.medications = Append(@, extract_medication_data(resource))]
              [] OTHER -> prescription_data

\* The received bundles: their entries are the resources of two encoded
\* prescriptions and a resource of another type.
Bundles ==
    LET p == prescription_to_fhir(
                 [prescription_id |-> Missing,
                  patient |-> PatientOf(Missing, "all", TRUE),
                  practitioner |-> PractitionerOf("id_phone"),
                  medications |-> <<MedicationOf(StrVal("M1"), IntVal("30"),
                                                 IntVal("2"), Missing)>>])
        q == prescription_to_fhir(
                 [prescription_id |-> Missing,
                  patient |-> [PatientOf(Missing, "none", TRUE) EXCEPT
                                  !.id = StrVal("P2"), !.first_name = StrVal("Omar")],
                  practitioner |-> [PractitionerOf("names") EXCEPT
                                       !.id = StrVal("D2"),
                                       !.first_name = StrVal("Hany")],
                  medications |-> <<MedicationOf(StrVal("M2"), IntVal("10"),
                                                 IntVal("0"), Missing)>>])
        resources == p \o q \o <<[resourceType |-> "Organization",
                                  id |-> StrVal("healthflow-org")]>>
    IN {[k \in DOMAIN ix |-> resources[ix[k]]] :
           ix \in SeqsUpTo(DOMAIN resources, MaxBundle)}

\* HL7MessageBuilder and HL7Parser ----------------------------------------
\* build_rde_o11_message, lines 60-136: the fields it sets, as the text
\* to_er7 writes; a composite field is the sequence of its components and a
\* field that is not set is the empty text.
build_rde_o11_message(prescription_data) ==
    LET patient == prescription_data.patient
        practitioner == prescription_data.practitioner
        addr == patient.address
    IN [msh_9  |-> <<"RDE", "O11", "RDE_O11">>,
        msh_10 |-> TextOf(GetOr(prescription_data.prescription_id, StrVal(""))),
        pid    |-> [pid_1  |-> "1",
                    pid_2  |-> TextOf(GetOr(patient.mrn, StrVal(""))),
                    pid_3  |-> TextOf(GetOr(patient.id, StrVal(""))),
                    pid_5  |-> <<TextOf(GetOr(patient.last_name, StrVal(""))),
                                 TextOf(GetOr(patient.first_name, StrVal("")))>>,
                    pid_7  |-> NoDashes(TextOf(GetOr(patient.dob, StrVal("")))),
                    pid_8  |-> UpperFirst(TextOf(GetOr(patient.gender, StrVal("U")))),
                    pid_11 |-> IF addr.t = "dict"
                               THEN <<TextOf(GetOr(addr.street, StrVal(""))), "",
                                      TextOf(GetOr(addr.city, StrVal(""))),
                                      TextOf(GetOr(addr.state, StrVal(""))),
                                      TextOf(GetOr(addr.zip, StrVal("")))>>
                               ELSE <<"">>,
                    pid_13 |-> IF Truthy(patient.phone)
                               THEN <<"", "PRN", "PH", "", "", TextOf(patient.phone)>>
                               ELSE <<"">>],
        orc    |-> [orc_1  |-> "NW",
                    orc_2  |-> TextOf(GetOr(prescription_data.prescription_id, StrVal(""))),
                    orc_12 |-> IF practitioner # EmptyPractitioner
                               THEN <<TextOf(GetOr(practitioner.npi, StrVal(""))),
                                      TextOf(GetOr(practitioner.last_name, StrVal(""))),
                                      TextOf(GetOr(practitioner.first_name, StrVal("")))>>
                               ELSE <<"">>],
        rxe    |-> [k \in DOMAIN prescription_data.medications |->
                     LET medication == prescription_data.medications[k]
                     IN [rxe_1  |-> "1",
                         rxe_2  |-> <<TextOf(GetOr(medication.rxnorm_code, StrVal(""))),
                                      TextOf(GetOr(medication.name, StrVal(""))),
                                      "RXN">>,
                         rxe_3  |-> TextOf(GetOr(medication.quantity, StrVal(""))),
                         rxe_5  |-> TextOf(GetOr(medication.dosage_instruction,
                                                 StrVal(""))),
                         rxe_6  |-> "TAB",
                         rxe_12 |-> IF Truthy(medication.refills)
                                    THEN TextOf(medication.refills) ELSE ""]]]

\* parts[k] if len(parts) > k else "", with k counted from 0.
Part(parts, k) == IF Len(parts) > k THEN parts[k + 1] ELSE ""

\* _extract_patient_from_pid, lines 296-326.
extract_patient_from_pid(pid) ==
    [id         |-> StrVal(pid.pid_3),
     mrn        |-> StrVal(pid.pid_2),
     last_name  |-> StrVal(Part(pid.pid_5, 0)),
     first_name |-> StrVal(Part(pid.pid_5, 1)),
     dob        |-> StrVal(pid.pid_7),
     gender     |-> StrVal(IF pid.pid_8 = "" THEN "U" ELSE pid.pid_8),
     phone      |-> IF pid.pid_13 = <<"">> THEN PyNone
                    ELSE StrVal(pid.pid_13[Len(pid.pid_13)]),
     email      |-> Missing,
     address    |-> AddressDict(StrVal(Part(pid.pid_11, 0)),
                                StrVal(Part(pid.pid_11, 2)),
                                StrVal(Part(pid.pid_11, 3)),
                                StrVal(Part(pid.pid_11, 4)))]

\* _extract_practitioner_from_orc, lines 328-340.
extract_practitioner_from_orc(orc) ==
    [id         |-> Missing,
     npi        |-> StrVal(Part(orc.orc_12, 0)),
     last_name  |-> StrVal(Part(orc.orc_12, 1)),
     first_name |-> StrVal(Part(orc.orc_12, 2)),
     specialty  |-> Missing,
     phone      |-> Missing]

\* _extract_medication_from_rxe, lines 342-357.
extract_medication_from_rxe(rxe) ==
    [id          |-> Missing,
     rxnorm_code |-> StrVal(Part(rxe.rxe_2, 0)),
     name        |-> StrVal(Part(rxe.rxe_2, 1)),
     quantity    |-> StrVal(rxe.rxe_3),
     dosage_instruction |-> StrVal(rxe.rxe_5),
     dosage_form |-> StrVal(rxe.rxe_6),
     refills     |-> IF rxe.rxe_12 = "" THEN IntVal("0") ELSE StrVal(rxe.rxe_12),
     notes       |-> Missing]

\* parse_message and extract_prescription_data, lines 185-270, of a message
\* the builder wrote: its type is msh_9_1, and it has one PID and one ORC.
extract_prescription_data(msg) ==
    [prescription_id |-> StrVal(msg.msh_10),
     patient         |-> extract_patient_from_pid(msg.pid),
     practitioner    |-> extract_practitioner_from_orc(msg.orc),
     medications     |-> [k \in DOMAIN msg.rxe |-> extract_medication_from_rxe(msg.rxe[k])]]

CodecInit ==
    cdc = [op |-> "none", arg |-> EmptyPrescription, bundle |-> <<>>,
           out |-> EmptyPrescription]

\* fhir_to_prescription(prescription_to_fhir(P)).
fhir_round_trip(P) ==
    LET entry == prescription_to_fhir(P)
    IN cdc' = [op |-> "fhir_round_trip", arg |-> P, bundle |-> entry,
               out |-> fhir_to_prescription(entry, Len(entry))]

\* extract_prescription_data(parse_message(build_rde_o11_message(P))).
hl7_round_trip(P) ==
    cdc' = [op |-> "hl7_round_trip", arg |-> P, bundle |-> <<>>,
            out |-> extract_prescription_data(build_rde_o11_message(P))]

\* fhir_to_prescription(bundle) of a received bundle.
fhir_to_prescription_call(entry) ==
    cdc' = [op |-> "fhir_to_prescription", arg |-> EmptyPrescription,
            bundle |-> entry, out |-> fhir_to_prescription(entry, Len(entry))]

(***************************************************************************)
(* The REST layer, src/api/main.py                                         *)
(***************************************************************************)
\* The routes registered with @app.get / @app.post, lines 104-482.
Endpoints ==
    {"/health",
     "/api/prescriptions/submit",
     "/api/prescriptions/status/{submission_id}",
     "/api/pharmacy/prescription/{tx_id}",
     "/api/pharmacy/search/patient/{patient_id}",
     "/api/pharmacy/pending",
     "/api/dispensing/record",
     "/api/dispensing/{dispense_id}",
     "/api/dispensing/pharmacy/{pharmacy_id}",
     "/api/regulator/dashboard/statistics",
     "/api/regulator/prescription/{tx_id}",
     "/api/regulator/reports/{report_type}",
     "/api/regulator/doctor/{doctor_id}/activity",
     "/api/regulator/pharmacy/{pharmacy_id}/activity"}

\* The routes whose function declares api_key = Depends(verify_api_key):
\* every route but the health check (lines 105, 122, 154, 183, 214, 244,
\* 267, 306, 333, 367, 392, 419, 457, 488).
Secured(endpoint) == endpoint # "/health"

\* The X-API-Key header of a request: absent, or one of these values.
KeyHeaders == {<<>>} \cup {<<k>> : k \in {"dev-api-key", "prod-key", "invalid-key", ""}}

\* verify_api_key accepting whatever key is sent.
verify_api_key_AcceptsAny(header, expected_key) ==
    IF header = <<>> THEN 422 ELSE 200

\* verify_api_key with its Header(...) parameter, lines 91-100: a missing
\* header is a validation error (422) and the function is not called; a key
\* other than the expected one raises HTTPException 401.
verify_api_key(header, expected_key) ==
    IF header = <<>> THEN 422
    ELSE IF header[1] # expected_key THEN 401
    ELSE 200

\* request.dict() of a PrescriptionSubmitRequest, lines 62-72: the keys of
\* the dict handed to the gateway, and its medications list.
SubmitRequestKeys ==
    {"prescription_number", "doctor_id", "doctor_syndicate_number",
     "doctor_eda_license", "patient_id", "diagnosis", "diagnosis_ar",
     "notes", "notes_ar"}

\* The body of submit_prescription, lines 136-148: a gateway without a
\* validation service is built and given the dict as a JSON submission; an
\* exception (of the import, say) becomes status 500.
SubmitHandler(meds, failed, env, tx) ==
    IF failed
    THEN [status |-> 500, result |-> NoResponse]
    ELSE [status |-> 200,
          result |-> SubmitOutcome([dict |-> TRUE, keys |-> SubmitRequestKeys,
                                   meds |-> meds],
                                  "json", FALSE, env, tx)]

\* One request through FastAPI: the dependencies are solved first, then the
\* path, query and body values are validated, then the handler runs.
\* `code` is what verify_api_key comes to, `out` what the handler would do.
HandleRequest(endpoint, code, schema_valid, out) ==
    IF Secured(endpoint) /\ code # 200
    THEN [status |-> code, handler |-> FALSE, result |-> NoResponse]
    ELSE IF ~schema_valid
    THEN [status |-> 422, handler |-> FALSE, result |-> NoResponse]
    ELSE [status |-> out.status, handler |-> TRUE, result |-> out.result]

ApiInit ==
    api = [req  |-> [endpoint |-> "none", header |-> <<>>,
                     expected_key |-> "dev-api-key", schema_valid |-> FALSE,
                     meds |-> "absent", env |-> "none"],
           resp |-> [status |-> 0, handler |-> FALSE, result |-> NoResponse]]

\* POST /api/prescriptions/submit.
post_submit(header, expected_key, schema_valid, meds, failed, env, tx) ==
    api' = [req  |-> [endpoint |-> "/api/prescriptions/submit",
                      header |-> header, expected_key |-> expected_key,
                      schema_valid |-> schema_valid, meds |-> meds,
                      env |-> IF failed THEN "handler_raises" ELSE env],
            resp |-> HandleRequest("/api/prescriptions/submit",
                                   verify_api_key(header, expected_key),
                                   schema_valid,
                                   SubmitHandler(meds, failed, env, tx))]

\* Any other route.
other_request(endpoint, header, expected_key, schema_valid, status) ==
    api' = [req  |-> [endpoint |-> endpoint,
                      header |-> header, expected_key |-> expected_key,
                      schema_valid |-> schema_valid, meds |-> "absent",
                      env |-> "none"],
            resp |-> HandleRequest(endpoint,
                                   verify_api_key(header, expected_key),
                                   schema_valid,
                                   [status |-> status, result |-> NoResponse])]

Init ==
    /\ SchedInit /\ QueueInit /\ GatewayInit
    /\ TokenInit /\ ValidatorInit /\ ContextInit
    /\ DispenseInit /\ ApiInit /\ CodecInit

Next ==
    \/ Tick /\ UNCHANGED <<queueVars, gw, tokenVars, hv, pctx, moreVars>>
    \/ \E p \in RxIds, e \in EhrSystems, n \in RetryCounts :
           schedule_sync(p, e, n) /\ UNCHANGED <<queueVars, gw, tokenVars, hv, pctx, moreVars>>
    \/ \E env \in [DOMAIN sync_jobs -> ConnectorOutcomes] :
           process_sync_jobs(env) /\ UNCHANGED <<queueVars, gw, tokenVars, hv, pctx, moreVars>>
    \/ \E n \in 0..Len(sync_jobs) :
           get_job_status_call(n) /\ UNCHANGED <<queueVars, gw, tokenVars, hv, pctx, moreVars>>

Spec == Init /\ [][Next]_vars

NextConc ==
    \/ \E p \in RxIds, e \in EhrSystems, n \in RetryCounts :
           schedule_sync(p, e, n) /\ UNCHANGED <<queueVars, gw, tokenVars, hv, pctx, moreVars>>
    \/ \E w \in Workers : P_Start(w) /\ UNCHANGED <<queueVars, gw, tokenVars, hv, pctx, moreVars>>
    \/ \E w \in Workers : P_Begin(w) /\ UNCHANGED <<queueVars, gw, tokenVars, hv, pctx, moreVars>>
    \/ \E w \in Workers, o \in ConnectorOutcomes :
           P_End(w, o) /\ UNCHANGED <<queueVars, gw, tokenVars, hv, pctx, moreVars>>
    \/ \E w \in Workers : P_Return(w) /\ UNCHANGED <<queueVars, gw, tokenVars, hv, pctx, moreVars>>

SpecConc == Init /\ [][NextConc]_vars

\* The scheduler with its driver: jobs are scheduled, and process_sync_jobs
\* is called again and again, one call at a time.
ProcessAny ==
    \E env \in [DOMAIN sync_jobs -> ConnectorOutcomes] : process_sync_jobs(env)

NextDriven ==
    \/ \E p \in RxIds, e \in EhrSystems, n \in RetryCounts :
           schedule_sync(p, e, n) /\ UNCHANGED <<queueVars, gw, tokenVars, hv, pctx, moreVars>>
    \/ ProcessAny /\ UNCHANGED <<queueVars, gw, tokenVars, hv, pctx, moreVars>>

SpecDriven ==
    /\ Init /\ [][NextDriven]_vars
    /\ WF_vars(ProcessAny /\ UNCHANGED <<queueVars, gw, tokenVars, hv, pctx, moreVars>>)

(***************************************************************************)
(* enqueue and dequeue, statement by statement, for calls that overlap.    *)
(* Neither method takes a lock; each step below is one list operation with *)
(* the statements next to it.                                              *)
(***************************************************************************)
\* Lines 442-450: the append.
E_Append(t, priority) ==
    /\ qt[t].pc = "idle"
    /\ enqueued < MaxMsgs
    /\ enqueued' = enqueued + 1
    /\ queue' = Append(queue, NewMessage(enqueued + 1, priority, qclock))
    /\ qt' = [qt EXCEPT ![t] = [pc |-> "sort", queue_id |-> <<qclock>>]]
    /\ UNCHANGED <<processed, qclock, qret, delivered>>

\* Lines 453-457: the sort and the return.
E_Sort(t) ==
    /\ qt[t].pc = "sort"
    /\ queue' = SortByPriority(queue)
    /\ qt' = [qt EXCEPT ![t] = IdleThread]
    /\ qret' = [op |-> "enqueue", val |-> qt[t].queue_id]
    /\ UNCHANGED <<processed, qclock, enqueued, delivered>>

\* Lines 466-467: the emptiness test.
D_Check(t) ==
    /\ qt[t].pc = "idle"
    /\ IF queue = <<>>
       THEN /\ qret' = [op |-> "dequeue", val |-> <<>>]
            /\ UNCHANGED qt
       ELSE /\ qt' = [qt EXCEPT ![t].pc = "pop"]
            /\ UNCHANGED qret
    /\ UNCHANGED <<queue, processed, qclock, enqueued, delivered>>

\* Lines 469-475: pop(0), which raises IndexError on an empty list.
D_Pop(t) ==
    /\ qt[t].pc = "pop"
    /\ IF queue = <<>>
       THEN /\ qret' = [op |-> "dequeue_raised", val |-> <<>>]
            /\ UNCHANGED <<queue, delivered>>
       ELSE /\ queue' = Tail(queue)
            /\ delivered' = Append(delivered, Popped(queue))
            /\ qret' = [op |-> "dequeue", val |-> <<Popped(queue)>>]
    /\ qt' = [qt EXCEPT ![t].pc = "idle"]
    /\ UNCHANGED <<processed, qclock, enqueued>>

NextQueueConc ==
    \/ QTick /\ UNCHANGED <<schedVars, gw, tokenVars, hv, pctx, moreVars>>
    \/ \E t \in QThreads, p \in Priorities :
           E_Append(t, p) /\ UNCHANGED <<schedVars, gw, tokenVars, hv, pctx, moreVars>>
    \/ \E t \in QThreads : E_Sort(t) /\ UNCHANGED <<schedVars, gw, tokenVars, hv, pctx, moreVars>>
    \/ \E t \in QThreads : D_Check(t) /\ UNCHANGED <<schedVars, gw, tokenVars, hv, pctx, moreVars>>
    \/ \E t \in QThreads : D_Pop(t) /\ UNCHANGED <<schedVars, gw, tokenVars, hv, pctx, moreVars>>

SpecQueueConc == Init /\ [][NextQueueConc]_vars

NextGateway ==
    \/ \E service \in BOOLEAN :
           gateway_init(service) /\ UNCHANGED <<schedVars, queueVars, tokenVars, hv, pctx, moreVars>>
    \/ \E data \in Payloads, format \in Formats, env \in Envs, tx \in TxIds :
           submit_prescription(data, format, env, tx)
           /\ UNCHANGED <<schedVars, queueVars, tokenVars, hv, pctx, moreVars>>

SpecGateway == Init /\ [][NextGateway]_vars

NextToken ==
    \/ TokenTick /\ UNCHANGED <<schedVars, queueVars, gw, hv, pctx, moreVars>>
    \/ \E o \in TokenOutcomes, with_refresh \in BOOLEAN, e \in ExpiresIns :
           exchange_code_for_token(o, with_refresh, e)
           /\ UNCHANGED <<schedVars, queueVars, gw, hv, pctx, moreVars>>
    \/ \E o \in TokenOutcomes, e \in ExpiresIns :
           get_access_token_call(o, e)
           /\ UNCHANGED <<schedVars, queueVars, gw, hv, pctx, moreVars>>
    \/ \E o \in {"ok", "http_error", "transport"} :
           make_request(o) /\ UNCHANGED <<schedVars, queueVars, gw, hv, pctx, moreVars>>

SpecToken == Init /\ [][NextToken]_vars

NextTokenConc ==
    \/ TokenTick /\ UNCHANGED <<schedVars, queueVars, gw, hv, pctx, moreVars>>
    \/ \E o \in TokenOutcomes, with_refresh \in BOOLEAN, e \in ExpiresIns :
           exchange_code_for_token(o, with_refresh, e)
           /\ UNCHANGED <<schedVars, queueVars, gw, hv, pctx, moreVars>>
    \/ \E t \in TokenThreads :
           A_Check(t) /\ UNCHANGED <<schedVars, queueVars, gw, hv, pctx, moreVars>>
    \/ \E t \in TokenThreads :
           A_Post(t) /\ UNCHANGED <<schedVars, queueVars, gw, hv, pctx, moreVars>>
    \/ \E t \in TokenThreads, o \in TokenOutcomes, e \in ExpiresIns :
           A_Response(t, o, e)
           /\ UNCHANGED <<schedVars, queueVars, gw, hv, pctx, moreVars>>
    \/ \E t \in TokenThreads :
           A_Return(t) /\ UNCHANGED <<schedVars, queueVars, gw, hv, pctx, moreVars>>

SpecTokenConc == Init /\ [][NextTokenConc]_vars

NextValidator ==
    \E msg \in HL7Strings, parse \in ParseOutcomes :
        validate_message_call(msg, parse)
        /\ UNCHANGED <<schedVars, queueVars, gw, tokenVars, pctx, moreVars>>

SpecValidator == Init /\ [][NextValidator]_vars

NextContext ==
    \/ \E e \in EhrSystems :
           register_connector(e) /\ UNCHANGED <<queueVars, gw, tokenVars, hv, pctx, moreVars>>
    \/ \E e \in EhrSystems, env \in ContextEnvs :
           get_patient_context_call(e, env)
           /\ UNCHANGED <<schedVars, queueVars, gw, tokenVars, hv, moreVars>>

SpecContext == Init /\ [][NextContext]_vars

NextDispense ==
    \/ \E t \in DispenseThreads, tx \in DispenseTxIds, same \in BOOLEAN :
           R_Check(t, tx, same)
           /\ UNCHANGED <<schedVars, queueVars, gw, tokenVars, hv, pctx, api, cdc>>
    \/ \E t \in DispenseThreads, raises \in BOOLEAN :
           R_Store(t, raises)
           /\ UNCHANGED <<schedVars, queueVars, gw, tokenVars, hv, pctx, api, cdc>>
    \/ \E t \in DispenseThreads :
           R_Mark(t) /\ UNCHANGED <<schedVars, queueVars, gw, tokenVars, hv, pctx, api, cdc>>
    \/ \E t \in DispenseThreads :
           R_Return(t) /\ UNCHANGED <<schedVars, queueVars, gw, tokenVars, hv, pctx, api, cdc>>

SpecDispense == Init /\ [][NextDispense]_vars

\* The expected key is os.getenv("API_KEY", "dev-api-key"), line 94.
NextApi ==
    \/ \E header \in KeyHeaders, expected_key \in {"dev-api-key", "prod-key"},
          schema_valid \in BOOLEAN, meds \in {"empty", "some"},
          failed \in BOOLEAN, env \in Envs, tx \in TxIds :
           post_submit(header, expected_key, schema_valid, meds, failed, env, tx)
           /\ UNCHANGED <<schedVars, queueVars, gw, tokenVars, hv, pctx, disp, cdc>>
    \/ \E endpoint \in Endpoints \ {"/api/prescriptions/submit"},
          header \in KeyHeaders, expected_key \in {"dev-api-key", "prod-key"},
          schema_valid \in BOOLEAN, status \in {200, 404, 500} :
           other_request(endpoint, header, expected_key, schema_valid, status)
           /\ UNCHANGED <<schedVars, queueVars, gw, tokenVars, hv, pctx, disp, cdc>>

SpecApi == Init /\ [][NextApi]_vars

NextCodec ==
    \/ \E P \in Prescriptions :
           fhir_round_trip(P)
           /\ UNCHANGED <<schedVars, queueVars, gw, tokenVars, hv, pctx, disp, api>>
    \/ \E P \in Prescriptions :
           hl7_round_trip(P)
           /\ UNCHANGED <<schedVars, queueVars, gw, tokenVars, hv, pctx, disp, api>>
    \/ \E entry \in Bundles :
           fhir_to_prescription_call(entry)
           /\ UNCHANGED <<schedVars, queueVars, gw, tokenVars, hv, pctx, disp, api>>

SpecCodec == Init /\ [][NextCodec]_vars

NextQueue ==
    \/ QTick /\ UNCHANGED <<schedVars, gw, tokenVars, hv, pctx, moreVars>>
    \/ \E p \in Priorities : enqueue(p) /\ UNCHANGED <<schedVars, gw, tokenVars, hv, pctx, moreVars>>
    \/ dequeue /\ UNCHANGED <<schedVars, gw, tokenVars, hv, pctx, moreVars>>
    \/ \E id \in 0..MaxQTime, ok \in BOOLEAN :
           mark_processed(id, ok) /\ UNCHANGED <<schedVars, gw, tokenVars, hv, pctx, moreVars>>
    \/ get_queue_status_call /\ UNCHANGED <<schedVars, gw, tokenVars, hv, pctx, moreVars>>

SpecQueue == Init /\ [][NextQueue]_vars

(***************************************************************************)
(* Scheduler claims                                                        *)
(***************************************************************************)
\* A step of Spec that is one whole process_sync_jobs call.
ProcessStep == ret'.op = "process" /\ clock' = clock
ScheduleStep == ret'.op = "schedule" /\ Len(sync_jobs') = Len(sync_jobs) + 1
StatusStep == ret'.op = "status" /\ clock' = clock

\* C1: one process_sync_jobs call gives every job that was pending at its
\* start exactly one more attempt and one delivery; a delivered job becomes
\* completed, a failed one stays pending while attempts < retry_count and
\* otherwise becomes failed with the error in its result.
C1_OnePassOneAttempt ==
    [][ProcessStep =>
        \A i \in DOMAIN sync_jobs :
            sync_jobs[i].status = "pending" =>
                LET old == sync_jobs[i]
                    new == sync_jobs'[i]
                IN /\ new.attempts = old.attempts + 1
                   /\ hist'[i].calls = hist[i].calls + 1
                   /\ hist'[i].last = "ok" => new.status = "completed"
                   /\ hist'[i].last # "ok" /\ new.attempts < new.retry_count
                          => new.status = "pending"
                   /\ hist'[i].last # "ok" /\ new.attempts >= new.retry_count
                          => /\ new.status = "failed"
                             /\ new.result = <<"error", hist'[i].last>>]_vars

C1_Witness ==
    /\ ret.op = "process"
    /\ \E i, j \in DOMAIN sync_jobs :
          /\ sync_jobs[i].status = "failed" /\ sync_jobs[i].attempts = 2
          /\ sync_jobs[i].result = <<"error", "transport">>
          /\ sync_jobs[j].status = "completed" /\ sync_jobs[j].attempts = 2

\* C4: a job with retry_count = N >= 1 whose every delivery fails is pending
\* after each of the first N - 1 passes and failed after the N-th, with
\* attempts = N, and later passes make no further delivery.
C4_AlwaysFailing ==
    \A i \in DOMAIN sync_jobs :
        LET job == sync_jobs[i]
            N   == job.retry_count
            p   == hist[i].passes
        IN N >= 1 /\ job.status # "completed" =>
              /\ p < N  => job.status = "pending" /\ job.attempts = p
              /\ p >= N => /\ job.status = "failed"
                            /\ job.attempts = N
                            /\ hist[i].calls = N

C4_Witness ==
    \E i \in DOMAIN sync_jobs :
        /\ sync_jobs[i].retry_count = 3
        /\ hist[i].passes = 4
        /\ sync_jobs[i].status = "failed"
        /\ sync_jobs[i].attempts = 3

\* C5: at most one job that has not reached a final status per
\* (prescription, target EHR system) pair.
C5_OneJobPerPair ==
    \A i, j \in DOMAIN sync_jobs :
        /\ i # j
        /\ sync_jobs[i].status = "pending"
        /\ sync_jobs[j].status = "pending"
        => <<sync_jobs[i].prescription_id, sync_jobs[i].ehr_system>>
             # <<sync_jobs[j].prescription_id, sync_jobs[j].ehr_system>>

\* C6: only a delivery that failed for its credentials or for the network is
\* left pending for another pass.
C6_RetryOnlyAuthOrTransport ==
    \A i \in DOMAIN sync_jobs :
        hist[i].last \in {"lookup", "api"} => sync_jobs[i].status # "pending"

\* C7: schedule_sync adds a pending job with no attempts and returns its id;
\* get_job_status on the id a schedule_sync call returned reports the job
\* that call created, on an id never returned it reports None, and it
\* leaves the jobs as they are.
C7_JobIdIdentifiesJob ==
    [][/\ ScheduleStep =>
            LET new == sync_jobs'[Len(sync_jobs')]
            IN /\ new.status = "pending" /\ new.attempts = 0
               /\ ret'.val = new.job_id
       /\ StatusStep =>
            /\ sync_jobs' = sync_jobs
            /\ IF ret'.of = 0 THEN ~ret'.val.found
               ELSE /\ ret'.val.found
                    /\ ret'.val.status = sync_jobs[ret'.of].status
                    /\ ret'.val.attempts = sync_jobs[ret'.of].attempts]_vars

\* C2: two overlapping process_sync_jobs calls that both found a job pending
\* at the same attempt count never both count an attempt for it.
C2_NoDoubleProcessing ==
    \A w1, w2 \in Workers : \A i \in DOMAIN sync_jobs :
        /\ w1 # w2
        /\ i \in wk[w1].did /\ i \in wk[w2].did
        => wk[w1].att0[i] # wk[w2].att0[i]

\* C3: while a job's delivery is in flight the job is not pending: it was
\* moved to an in-progress status before its attempts were counted.
C3_InFlightNotPending ==
    \A w \in Workers :
        wk[w].pc = "call" => sync_jobs[Head(wk[w].todo)].status # "pending"

(***************************************************************************)
(* Queue claims                                                            *)
(***************************************************************************)
\* A step of SpecQueue that is one whole dequeue call.
DequeueStep == qret'.op = "dequeue" /\ qclock' = qclock

\* C8: dequeue returns a queued message of the highest priority queued, the
\* one enqueued earliest among those, and takes it off the queue; on an
\* empty queue it returns None.
C8_PriorityThenFifo ==
    [][DequeueStep =>
        IF queue = <<>> THEN qret'.val = <<>>
        ELSE /\ qret'.val # <<>>
             /\ LET m == qret'.val[1]
                IN /\ \E k \in DOMAIN queue :
                         /\ queue[k].message = m.message
                         /\ queue[k].priority = m.priority
                         /\ queue' = RemoveAt(queue, k)
                   /\ \A k \in DOMAIN queue :
                         /\ queue[k].priority <= m.priority
                         /\ queue[k].priority = m.priority
                               => m.message <= queue[k].message]_vars

C8_Witness ==
    /\ qret.op = "dequeue"
    /\ qret.val # <<>>
    /\ qret.val[1].message = 2
    /\ Len(queue) = 2
    /\ queue[1].message = 3 /\ queue[1].priority = qret.val[1].priority
    /\ queue[2].message = 1 /\ queue[2].priority < qret.val[1].priority

\* C9: under overlapping enqueue and dequeue calls no dequeue fails, no
\* message is returned by two dequeues, and every enqueued message is either
\* still queued or was returned.
C9_AtomicDequeue ==
    /\ qret.op # "dequeue_raised"
    /\ \A a, b \in DOMAIN delivered :
          a # b => delivered[a].message # delivered[b].message
    /\ \A n \in 1..enqueued :
          \/ \E k \in DOMAIN queue : queue[k].message = n
          \/ \E k \in DOMAIN delivered : delivered[k].message = n

(***************************************************************************)
(* Gateway claims                                                          *)
(***************************************************************************)
\* C10: every submit_prescription call returns a response whose status is
\* transmitted, error or rejected, and lets no exception of validation, the
\* validation service, normalization, storage or forwarding through.
C10_TerminalResponse ==
    gw.count > 0 =>
        /\ gw.resp.status \in {"transmitted", "error", "rejected"}
        /\ ~gw.resp.raised

C10_Witness ==
    /\ gw.count > 0
    /\ gw.resp.status = "error"
    /\ gw.resp.message = <<"Submission error", "store">>

\* C11: the steps of one submission are taken in the order validate,
\* normalize, generate, store, forward; a submission that ends rejected took
\* the validate step only, carries the list of errors and no transaction ID,
\* and handed nothing to storage; one that ends transmitted took all five.
C11_StepsInOrder ==
    gw.count > 0 =>
        /\ \E n \in 1..Len(StepOrder) : gw.resp.steps = SubSeq(StepOrder, 1, n)
        /\ gw.resp.status = "rejected" =>
              /\ gw.resp.steps = <<"validate">>
              /\ gw.resp.errors # <<>>
              /\ gw.resp.prescription_tx_id = <<>>
              /\ gw.resp.stored = <<>>
        /\ gw.resp.status = "transmitted" => gw.resp.steps = StepOrder

C11_Witness ==
    /\ gw.count = 2
    /\ gw.req.format = "json"
    /\ gw.req.meds = "not_list"
    /\ gw.resp.status = "rejected"
    /\ gw.resp.errors = << <<"medications", "Must be a list">> >>
    /\ Len(gw.stored) = 1

\* C12: a submission whose payload has an empty medications list is never
\* transmitted, and when nothing fails it is rejected with an error for the
\* field medications, in every declared format.
C12_ZeroMedicationsRejected ==
    gw.count > 0 /\ gw.req.meds = "empty" =>
        /\ gw.resp.status # "transmitted"
        /\ gw.req.env = "none" =>
              /\ gw.resp.status = "rejected"
              /\ \E k \in DOMAIN gw.resp.errors :
                     gw.resp.errors[k][1] = "medications"

\* C13: every record handed to storage carries a medications list with at
\* least one item, whatever format it was submitted in.
C13_StoredHasMedications ==
    \A k \in DOMAIN gw.stored : gw.stored[k].medications = "some"

\* C14: a JSON submission carrying exactly doctor_id, patient_id, diagnosis
\* and a medications list with items is transmitted, with a generated
\* transaction ID, when nothing fails.
C14_SpecExampleAccepted ==
    /\ gw.count > 0
    /\ gw.req.format = "json" /\ gw.req.example /\ gw.req.meds = "some"
    /\ gw.req.env = "none"
    => /\ gw.resp.status = "transmitted"
       /\ gw.resp.prescription_tx_id # <<>>

C16_UniqueTxIds ==
    \A i, j \in DOMAIN gw.txs : i # j => gw.txs[i] # gw.txs[j]

(***************************************************************************)
(* Authenticator claims                                                    *)
(***************************************************************************)
\* C17: no EHR request goes out with an access token that was never obtained
\* or whose expiry has passed while a refresh token is held: the token is
\* refreshed before the request is sent.
C17_NoExpiredTokenSent ==
    sent.n > 0 /\ sent.header.refresh_held =>
        /\ sent.header.token # <<>>
        /\ ~sent.header.expired

\* C18: of the get_access_token calls that overlap on one authenticator, at
\* most one is between its expiry test and the end of its refresh, so at most
\* one refresh request is in flight and no two are made for the same expiry.
C18_SerializedRefresh ==
    \A t1, t2 \in TokenThreads :
        t1 # t2 =>
            /\ ~(th[t1].pc = "wait" /\ th[t2].pc = "wait")
            /\ ~(/\ th[t1].pc \in {"post", "wait"}
                 /\ th[t2].pc \in {"post", "wait"}
                 /\ th[t1].saw = th[t2].saw)

(***************************************************************************)
(* Validator claims                                                        *)
(***************************************************************************)
\* C19: a non-empty string that does not start with MSH is reported invalid
\* with the error "Message must start with MSH segment", and the parser is
\* not called for a string for which a structural check gave an error.
C19_StructuralBeforeGrammar ==
    hv.called /\ ~IsEmptyString(hv.msg) =>
        /\ ~StartsWithMSH(hv.msg) =>
              /\ ~hv.res.valid
              /\ \E k \in DOMAIN hv.res.errors :
                     hv.res.errors[k] = <<0, "Message must start with MSH segment">>
        /\ hv.res.before_parse > 0 => ~hv.res.parse_called

(***************************************************************************)
(* Patient context claims                                                  *)
(***************************************************************************)
\* C20: for a registered connector whose get_patient and get_medications
\* return, get_patient_context returns a context; its allergies are empty
\* when the connector has no get_allergies or that call fails, and its
\* conditions are empty when it has no get_conditions or that call fails.
C20_OptionalCapabilities ==
    /\ pctx.called /\ pctx.registered
    /\ pctx.env.patient = "ok" /\ pctx.env.medications = "ok"
    => /\ ~pctx.res.raised
       /\ \/ ~HasMethod(pctx.ehr_system, "get_allergies")
          \/ pctx.env.allergies # "ok"
          => pctx.res.allergies = <<>>
       /\ \/ ~HasMethod(pctx.ehr_system, "get_conditions")
          \/ pctx.env.conditions # "ok"
          => pctx.res.conditions = <<>>

C20_Witness ==
    /\ pctx.called /\ pctx.registered
    /\ pctx.ehr_system = "cerner"
    /\ pctx.env.patient = "ok" /\ pctx.env.medications = "ok"
    /\ pctx.env.allergy_list # <<>>
    /\ ~pctx.res.raised
    /\ pctx.res.allergies = <<>>
    /\ pctx.res.current_medications = <<"Unknown">>

(***************************************************************************)
(* Scheduler claims, continued                                             *)
(***************************************************************************)
\* C27: a job scheduled with retry_count >= 1 always has
\* 0 <= attempts <= retry_count, and is failed only with attempts = retry_count.
C27_AttemptsBounded ==
    \A i \in DOMAIN sync_jobs :
        sync_jobs[i].retry_count >= 1 =>
            /\ 0 <= sync_jobs[i].attempts
            /\ sync_jobs[i].attempts <= sync_jobs[i].retry_count
            /\ sync_jobs[i].status = "failed"
                  => sync_jobs[i].attempts = sync_jobs[i].retry_count

C27_Witness ==
    \E i, j \in DOMAIN sync_jobs :
        /\ sync_jobs[i].retry_count = 2 /\ sync_jobs[i].status = "failed"
        /\ sync_jobs[i].attempts = 2
        /\ sync_jobs[j].retry_count = 3 /\ sync_jobs[j].status = "pending"
        /\ sync_jobs[j].attempts = 2

\* C28: no call changes a job that is completed or failed, and no delivery
\* is attempted for it again.
C28_FinalIsAbsorbing ==
    [][\A i \in DOMAIN sync_jobs :
          sync_jobs[i].status \in {"completed", "failed"} =>
              /\ sync_jobs'[i] = sync_jobs[i]
              /\ hist'[i].calls = hist[i].calls]_vars

C28_Witness ==
    /\ ret.op = "process"
    /\ \E i, j \in DOMAIN sync_jobs :
          /\ sync_jobs[i].status = "failed"
          /\ sync_jobs[i].retry_count = 1 /\ hist[i].passes = 2
          /\ hist[i].calls = 1
          /\ sync_jobs[j].status = "completed"
          /\ sync_jobs[j].attempts = 3
          /\ sync_jobs[j].last_attempt_at # sync_jobs[i].last_attempt_at

\* C29: with process_sync_jobs called again and again, every job scheduled
\* with retry_count >= 1 becomes completed or failed, and no more deliveries
\* are attempted for it than its retry_count.
C29_EveryJobEnds ==
    /\ \A i \in 1..MaxJobs :
          (i \in DOMAIN sync_jobs /\ sync_jobs[i].retry_count >= 1)
             ~> (/\ i \in DOMAIN sync_jobs
                 /\ sync_jobs[i].status \in {"completed", "failed"})
    /\ [](\A i \in DOMAIN sync_jobs :
             sync_jobs[i].retry_count >= 1 => hist[i].calls <= sync_jobs[i].retry_count)

C29_Witness ==
    \E i \in DOMAIN sync_jobs :
        /\ sync_jobs[i].retry_count = 3
        /\ sync_jobs[i].status = "failed"
        /\ hist[i].calls = 3
        /\ hist[i].last = "auth"

(***************************************************************************)
(* Queue claims, continued                                                 *)
(***************************************************************************)
\* C24: after mark_processed(queue_id, success) every message that dequeue
\* handed out under that queue_id is in the processed list, with status
\* success if success was true and error otherwise.
C24_MarkAfterDequeue ==
    qret.op = "mark_processed" =>
        \A d \in DOMAIN delivered :
            delivered[d].queue_id = qret.id =>
                \E k \in DOMAIN processed :
                    /\ processed[k].message = delivered[d].message
                    /\ processed[k].status =
                          IF qret.success THEN "success" ELSE "error"

\* C30: the messages enqueued so far are as many as get_queue_status reports
\* pending, processing and processed together, and it reports as processing
\* the messages dequeue handed out that are not in the processed list.
C30_NoMessageLost ==
    /\ enqueued = get_queue_status.pending + get_queue_status.processing
                    + get_queue_status.total_processed
    /\ get_queue_status.processing =
          Cardinality({d \in DOMAIN delivered :
                          \A k \in DOMAIN processed :
                              processed[k].message # delivered[d].message})

C23_ApiKeyPrecedesHandler ==
    api.req.endpoint \notin {"none", "/health"} =>
        /\ api.req.header = <<>> =>
              api.resp.status = 422 /\ ~api.resp.handler
        /\ api.req.header # <<>> /\ api.req.header # <<api.req.expected_key>> =>
              api.resp.status = 401 /\ ~api.resp.handler

C23_Witness ==
    /\ api.req.endpoint = "/api/dispensing/record"
    /\ api.req.header = <<"dev-api-key">>
    /\ api.req.expected_key = "prod-key"
    /\ api.req.schema_valid
    /\ api.resp.status = 401
    /\ ~api.resp.handler

\* C26: an authenticated, schema-valid submit request with at least one
\* medication, met by no failure, passes the gateway's required-field check
\* and ends transmitted with a transaction ID.
C26_EndpointFieldsSuffice ==
    /\ api.req.endpoint = "/api/prescriptions/submit"
    /\ api.resp.handler
    /\ api.req.meds = "some"
    /\ api.req.env = "none"
    => /\ \A k \in DOMAIN api.resp.result.errors :
             api.resp.result.errors[k][2] # "Required field missing"
       /\ api.resp.result.status = "transmitted"
       /\ api.resp.result.prescription_tx_id # <<>>

(***************************************************************************)
(* Codec claims                                                            *)
(***************************************************************************)
\* The fields dictionary `was` carries come back in `now` with their values.
FieldsKept(was, now, fields) ==
    \A f \in fields : was[f].t # "absent" => now[f] = was[f]

\* C21: encoding a prescription and decoding the result, through the FHIR
\* codec or through the HL7 v2 codec, gives back every patient, practitioner
\* and medication field the prescription carried (mrn, specialty, notes and
\* refills among them), and as many medications.
C21_RoundTripKeepsFields ==
    cdc.op \in {"fhir_round_trip", "hl7_round_trip"} =>
        /\ FieldsKept(cdc.arg.patient, cdc.out.patient, PatientFields)
        /\ cdc.arg.patient.address.t = "dict" =>
               cdc.out.patient.address = cdc.arg.patient.address
        /\ FieldsKept(cdc.arg.practitioner, cdc.out.practitioner, PractitionerFields)
        /\ Len(cdc.out.medications) = Len(cdc.arg.medications)
        /\ \A k \in DOMAIN cdc.arg.medications :
               k \in DOMAIN cdc.out.medications
               /\ FieldsKept(cdc.arg.medications[k], cdc.out.medications[k],
                             MedicationFields)

\* The entries of a given resource type, in bundle order.
EntriesOf(entry, resource_type) ==
    SelectSeq(entry, LAMBDA r : r.resourceType = resource_type)

\* C22: fhir_to_prescription takes the patient from the first Patient entry
\* of the bundle and the practitioner from the first Practitioner entry, and
\* gives one medication per MedicationRequest entry, in bundle order.
C22_FirstPatientAndPractitioner ==
    cdc.op = "fhir_to_prescription" =>
        LET patients == EntriesOf(cdc.bundle, "Patient")
            practitioners == EntriesOf(cdc.bundle, "Practitioner")
            requests == EntriesOf(cdc.bundle, "MedicationRequest")
        IN /\ patients # <<>> =>
                  cdc.out.patient = extract_patient_data(patients[1])
           /\ practitioners # <<>> =>
                  cdc.out.practitioner = extract_practitioner_data(practitioners[1])
           /\ cdc.out.medications =
                  [k \in DOMAIN requests |-> extract_medication_data(requests[k])]

=============================================================================
